---------------------------- MODULE Spec2Model ----------------------------
(***************************************************************************)
(* A model of the client-side cache/sync subsystem (cacheService: the      *)
(* IndexedDB-backed local store and smartSync) and of the analytics event  *)
(* batcher (trackingService: eventQueue, flushTimeout, queueEvent,         *)
(* flushEvents) of the business-directory web client.                      *)
(*                                                                         *)
(* Execution is single-threaded with asynchronous suspension points: every *)
(* action below is the code that runs between two awaits (a handler run to *)
(* its next suspension), so the interleavings of the model are the         *)
(* interleavings of the event loop.                                        *)
(***************************************************************************)
EXTENDS Integers, Sequences, FiniteSets, TLC

VARIABLES
    \* ---- local store (IndexedDB 'jawala-business-db') ----
    cachedBiz,      \* content of object store 'businesses' (records with _synced_at)
    cachedCats,     \* content of object store 'categories'
    dataVersion,    \* metadata entry 'data_version' (null when absent)
    bizTx,          \* the live readwrite transaction on 'businesses' (null when none)
    catTx,          \* the live readwrite transaction on 'categories' (null when none)
    \* ---- smartSync invocations ----
    sync,           \* per invocation slot: position and locals of smartSync
    wBiz,           \* per slot: progress of its setCachedBusinesses call
    wCats,          \* per slot: progress of its setCachedCategories call
    wVer,           \* per slot: progress of its setLocalVersion call
    nCalls,         \* smartSync calls made so far
    \* ---- history of the store (for the atomicity statements) ----
    lastBiz,        \* the business records of the last replace that committed
    lastCats,       \* the category records of the last replace that committed
    \* ---- event batcher (trackingService) ----
    isAnalyticsEnabled, \* the analyticsClient flag, fixed when the module loads
    stream,         \* the target table of the 1st, 2nd, ... queueEvent call
    eventQueue,     \* let eventQueue: any[]
    flushTimeout,   \* let flushTimeout: the handle last returned by setTimeout (0: null)
    timers,         \* the handles of the flush timers that are outstanding
    flushes,        \* every flushEvents run that swapped the queue, with its progress
    nextEventId,    \* the number of the next queueEvent call (its payload)
    lastEnqueue,    \* what the last queueEvent call did
    clock,          \* the time, in ms since the module loaded
    due,            \* for each outstanding flush timer, the time it is due
    lastPushAt,     \* the time of the last eventQueue.push
    flushCause,     \* for each flush of flushes, what called flushEvents
    unloads,        \* beforeunload events so far
    \* ---- remote service and the admin handlers of App ----
    remoteBiz,      \* the rows of the remote table 'businesses'
    businessData,   \* App state businessData.businesses, the list displayed
    admin,          \* position and locals of handleSaveBusiness / handleDeleteBusiness
    \* ---- single calls ----
    safeOp,         \* a call of safeAnalyticsOperation: its arguments and result
    clear,          \* the clearCache call: its position and the stores it has cleared
    \* ---- presence pings (trackingService: live tracking) ----
    presence,       \* the page's clock and visibility, lastActivity, isTabActive, pingInterval
    \* ---- AiAssistant ----
    ai,             \* component state (response, error, isLoading) and handleQuery's position
    \* ---- application loads, the name popup, the admin session ----
    loads,          \* what each finished smartSync call of loadData did
    visit,          \* the trackUserVisit call and localStorage 'jawala_user_name'
    app             \* App state (currentUser, adminView, showLogin) and the auth session

storeVars == <<cachedBiz, cachedCats, dataVersion, bizTx, catTx>>
batchVars == <<isAnalyticsEnabled, stream, eventQueue, flushTimeout, timers,
               flushes, nextEventId, lastEnqueue, clock, due, lastPushAt,
               flushCause, unloads>>
vars == <<cachedBiz, cachedCats, dataVersion, bizTx, catTx,
          sync, wBiz, wCats, wVer, nCalls, lastBiz, lastCats,
          isAnalyticsEnabled, stream, eventQueue, flushTimeout, timers,
          flushes, nextEventId, lastEnqueue, clock, due, lastPushAt, flushCause,
          unloads, remoteBiz, businessData, admin, safeOp, clear, presence, ai, loads, visit, app>>
adminVars == <<remoteBiz, businessData, admin>>
pageVars == <<presence, ai, loads, visit, app>>
callVars == <<safeOp, clear, pageVars>>

---------------------------------------------------------------------------
(* Bounds and input sets                                                   *)

\* smartSync invocation slots; a slot is reused by the next call.
Procs == {"p1", "p2"}

\* The slots the cache/sync specification uses.
SyncProcs == {"p1"}

\* smartSync calls in one run of the application's store.
MaxCalls == 2

\* Date.now(): the clock is read in units of smartSync calls, so that every
\* call reads a later time than the calls before it.
DateNow == nCalls

\* The values Date.now() takes.
Times == 0..MaxCalls

\* Largest business_count a version accessor reports.
MaxCount == 1

\* Values of last_updated (ISO timestamps) a version accessor reports.
Stamps == {"2024-01-01T00:00:00Z", "2024-01-02T00:00:00Z"}

null == [null |-> TRUE]

\* A business record: its key and `rev', which stands for all its other fields.
Biz(i, r) == [id |-> i, rev |-> r]

\* A category record.
Cat(i) == [id |-> i, name |-> i]

\* Keys and field values of business records, and the longest list replaced.
BizIds == {"b1", "b2"}

Revs == {1, 2}

MaxList == 2

\* The datasets the full-data accessor returns.
DataSets ==
    { [businesses |-> <<>>, categories |-> <<>>],
      [businesses |-> <<Biz("b1", 1)>>, categories |-> <<Cat("c1")>>],
      [businesses |-> <<Biz("b1", 2), Biz("b2", 1)>>,
       categories |-> <<Cat("c2"), Cat("c1")>>] }

\* The descriptors the version accessor returns.
RemoteVersions ==
    [business_count : 0..MaxCount, last_updated : Stamps, last_sync : Times]

---------------------------------------------------------------------------
(* Pure helpers of the local store                                         *)

Range(s) == {s[i] : i \in 1..Len(s)}

\* store.put(value): upsert by key path 'id'.
StorePut(content, rec) == {r \in content : r.id # rec.id} \cup {rec}

\* { ...business, _synced_at: now }
WithSyncedAt(b, now) == [id |-> b.id, rev |-> b.rev, synced_at |-> now]

\* const { _synced_at, ...business } = b
StripSyncedAt(b) == [id |-> b.id, rev |-> b.rev]

\* getCachedBusinesses: db.getAll then map(strip)
getCachedBusinesses == {StripSyncedAt(b) : b \in cachedBiz}

\* getCachedCategories: db.getAll
getCachedCategories == cachedCats

\* getLocalVersion: getMetadata('data_version') -> data ? data.value : null
getLocalVersion == dataVersion

\* checkSyncNeeded comparing the whole descriptor, last_sync included.
checkSyncNeeded_wholeDescriptor(localVersion, remoteVersion) ==
    IF localVersion = null THEN "full_sync"
    ELSE IF localVersion # remoteVersion THEN "full_sync"
    ELSE "no_change"

\* checkSyncNeeded without the last_updated comparison.
checkSyncNeeded_countOnly(localVersion, remoteVersion) ==
    IF localVersion = null THEN "full_sync"
    ELSE IF localVersion.business_count # remoteVersion.business_count
         THEN "full_sync"
    ELSE "no_change"

checkSyncNeeded(localVersion, remoteVersion) ==
    IF localVersion = null THEN "full_sync"
    ELSE IF localVersion.business_count # remoteVersion.business_count
         THEN "full_sync"
    ELSE IF localVersion.last_updated # remoteVersion.last_updated
         THEN "full_sync"
    ELSE "no_change"


\* How a stored descriptor stands to a remote one: absent, equal in count and
\* last_updated, or different in one of them.
Compared(localVersion, remoteVersion) ==
    IF localVersion = null THEN "absent"
    ELSE IF /\ localVersion.business_count = remoteVersion.business_count
            /\ localVersion.last_updated = remoteVersion.last_updated
         THEN "equal"
    ELSE "differs"

---------------------------------------------------------------------------
(* smartSync: locals of one invocation                                     *)

IdleSync ==
    [ pc            |-> "idle",
      remoteVersion |-> null,     \* const remoteVersion
      localWas      |-> "none",   \* how the stored descriptor compared when checked
      syncAction    |-> "none",   \* const syncAction
      data          |-> null,     \* { businesses, categories } from fetchAllData
      rdBiz         |-> "none",   \* the pending getCachedBusinesses() of a Promise.all
      rdCats        |-> "none",   \* the pending getCachedCategories() of a Promise.all
      businesses    |-> {},       \* what getCachedBusinesses() resolved to
      categories    |-> {},       \* what getCachedCategories() resolved to
      caught        |-> FALSE,    \* the catch block has been entered
      before        |-> {},       \* (round trip) the collection before the replace
      result        |-> null,     \* the SyncResult returned
      nFetchAll     |-> 0,        \* calls of fetchAllData made by this invocation
      nSetBiz       |-> 0,        \* calls of setCachedBusinesses
      nSetCats      |-> 0,        \* calls of setCachedCategories
      nSetVersion   |-> 0 ]       \* calls of setLocalVersion

IdleTask == [st |-> "none", i |-> 0, now |-> 0]

IdleVer == [st |-> "none", value |-> null]

\* A store task or version write that is still running.
Running(t) == t.st \in {"begin", "put", "pending"}

\* catch (error) { ... Promise.all([getCachedBusinesses(), getCachedCategories()]) }
Catch(r) ==
    [r EXCEPT !.pc = "fallback", !.caught = TRUE,
              !.rdBiz = "pending", !.rdCats = "pending",
              !.businesses = {}, !.categories = {}]

\* return { action: 'no_change', businesses, categories, fromCache: true }
ReturnFromCache(r) ==
    [r EXCEPT !.pc = "returned",
              !.result = [action |-> "no_change", businesses |-> r.businesses,
                          categories |-> r.categories, fromCache |-> TRUE]]

\* return { action: 'full_sync', businesses, categories, fromCache: false }
ReturnFullSync(r) ==
    [r EXCEPT !.pc = "returned",
              !.result = [action |-> "full_sync", businesses |-> r.data.businesses,
                          categories |-> r.data.categories, fromCache |-> FALSE]]

\* A rejected read of a Promise.all: inside try it is caught, inside catch it escapes.
ReadRejected(r) ==
    IF r.pc = "readCache" THEN Catch(r)
    ELSE [r EXCEPT !.pc = "threw", !.rdBiz = "none", !.rdCats = "none"]

\* The join of the three writes returning as soon as one write has resolved
\* (Promise.race, or writes that are not awaited).
JoinWrites_first(r, b, c, v) ==
    IF r.pc # "writeCache" THEN r
    ELSE IF "failed" \in {b, c, v} THEN Catch(r)
    ELSE IF "done" \in {b, c, v} THEN ReturnFullSync(r)
    ELSE r

\* await Promise.all([setCachedBusinesses, setCachedCategories, setLocalVersion]):
\* the first rejection enters the catch block while the other writes go on;
\* when all three have resolved, smartSync returns.
JoinWrites(r, b, c, v) ==
    IF r.pc # "writeCache" THEN r
    ELSE IF "failed" \in {b, c, v} THEN Catch(r)
    ELSE IF {b, c, v} = {"done"} THEN ReturnFullSync(r)
    ELSE r

---------------------------------------------------------------------------
(* smartSync: steps up to the cache writes                                 *)

\* smartSync(...) is called: fetchRemoteVersion() is issued.
SmartSyncCall(p) ==
    /\ sync[p].pc = "idle"
    /\ nCalls < MaxCalls
    /\ nCalls' = nCalls + 1
    /\ sync' = [sync EXCEPT ![p].pc = "fetchRemoteVersion"]
    /\ UNCHANGED <<storeVars, wBiz, wCats, wVer, lastBiz, lastCats, batchVars, adminVars, callVars>>

\* const remoteVersion = await fetchRemoteVersion(); checkSyncNeeded starts.
FetchRemoteVersionResolves(p) ==
    /\ sync[p].pc = "fetchRemoteVersion"
    /\ \E v \in RemoteVersions :
          /\ v.last_sync = DateNow
          /\ sync' = [sync EXCEPT ![p].pc = "getLocalVersion", ![p].remoteVersion = v]
    /\ UNCHANGED <<storeVars, wBiz, wCats, wVer, lastBiz, lastCats, nCalls, batchVars, adminVars, callVars>>

FetchRemoteVersionRejects(p) ==
    /\ sync[p].pc = "fetchRemoteVersion"
    /\ sync' = [sync EXCEPT ![p] = Catch(@)]
    /\ UNCHANGED <<storeVars, wBiz, wCats, wVer, lastBiz, lastCats, nCalls, batchVars, adminVars, callVars>>

\* checkSyncNeeded resolves; on 'no_change' the two cache reads are issued,
\* otherwise fetchAllData() is called.
CheckSyncNeededResolves(p) ==
    /\ sync[p].pc = "getLocalVersion"
    /\ LET local  == getLocalVersion
           action == checkSyncNeeded(local, sync[p].remoteVersion)
       IN  sync' = [sync EXCEPT ![p] =
                IF action = "no_change"
                THEN [@ EXCEPT !.pc = "readCache", !.localWas = Compared(local, sync[p].remoteVersion),
                               !.syncAction = action,
                               !.rdBiz = "pending", !.rdCats = "pending"]
                ELSE [@ EXCEPT !.pc = "fetchAllData", !.localWas = Compared(local, sync[p].remoteVersion),
                               !.syncAction = action,
                               !.nFetchAll = @ + 1]]
    /\ UNCHANGED <<storeVars, wBiz, wCats, wVer, lastBiz, lastCats, nCalls, batchVars, adminVars, callVars>>

\* getLocalVersion (initDB or db.get) rejects inside checkSyncNeeded.
CheckSyncNeededRejects(p) ==
    /\ sync[p].pc = "getLocalVersion"
    /\ sync' = [sync EXCEPT ![p] = Catch(@)]
    /\ UNCHANGED <<storeVars, wBiz, wCats, wVer, lastBiz, lastCats, nCalls, batchVars, adminVars, callVars>>

\* db.getAll runs in a read-only transaction of its own, which starts only when
\* no readwrite transaction on the same object store is live.
BizReadable == bizTx = null

CatsReadable == catTx = null

GetCachedBusinessesResolves(p) ==
    /\ sync[p].pc \in {"readCache", "fallback"}
    /\ sync[p].rdBiz = "pending"
    /\ BizReadable
    /\ LET r == [sync[p] EXCEPT !.rdBiz = "ok", !.businesses = getCachedBusinesses]
       IN  sync' = [sync EXCEPT ![p] =
                       IF r.rdCats = "ok" THEN ReturnFromCache(r) ELSE r]
    /\ UNCHANGED <<storeVars, wBiz, wCats, wVer, lastBiz, lastCats, nCalls, batchVars, adminVars, callVars>>

GetCachedBusinessesRejects(p) ==
    /\ sync[p].pc \in {"readCache", "fallback"}
    /\ sync[p].rdBiz = "pending"
    /\ sync' = [sync EXCEPT ![p] = ReadRejected(@)]
    /\ UNCHANGED <<storeVars, wBiz, wCats, wVer, lastBiz, lastCats, nCalls, batchVars, adminVars, callVars>>

GetCachedCategoriesResolves(p) ==
    /\ sync[p].pc \in {"readCache", "fallback"}
    /\ sync[p].rdCats = "pending"
    /\ CatsReadable
    /\ LET r == [sync[p] EXCEPT !.rdCats = "ok", !.categories = getCachedCategories]
       IN  sync' = [sync EXCEPT ![p] =
                       IF r.rdBiz = "ok" THEN ReturnFromCache(r) ELSE r]
    /\ UNCHANGED <<storeVars, wBiz, wCats, wVer, lastBiz, lastCats, nCalls, batchVars, adminVars, callVars>>

GetCachedCategoriesRejects(p) ==
    /\ sync[p].pc \in {"readCache", "fallback"}
    /\ sync[p].rdCats = "pending"
    /\ sync' = [sync EXCEPT ![p] = ReadRejected(@)]
    /\ UNCHANGED <<storeVars, wBiz, wCats, wVer, lastBiz, lastCats, nCalls, batchVars, adminVars, callVars>>

\* const { businesses, categories } = await fetchAllData(); the three cache
\* writes are called in one Promise.all (last_sync: Date.now() is taken here).
FetchAllDataResolves(p) ==
    /\ sync[p].pc = "fetchAllData"
    /\ \E d \in DataSets :
          /\ sync' = [sync EXCEPT ![p].pc = "writeCache", ![p].data = d,
                                  ![p].nSetBiz = @ + 1, ![p].nSetCats = @ + 1,
                                  ![p].nSetVersion = @ + 1]
          /\ wBiz' = [wBiz EXCEPT ![p] = [st |-> "begin", i |-> 0, now |-> 0]]
          /\ wCats' = [wCats EXCEPT ![p] = [st |-> "begin", i |-> 0, now |-> 0]]
          /\ wVer' = [wVer EXCEPT ![p] =
                [st |-> "pending",
                 value |-> [sync[p].remoteVersion EXCEPT !.last_sync = DateNow]]]
    /\ UNCHANGED <<storeVars, lastBiz, lastCats, nCalls, batchVars, adminVars, callVars>>

FetchAllDataRejects(p) ==
    /\ sync[p].pc = "fetchAllData"
    /\ sync' = [sync EXCEPT ![p] = Catch(@)]
    /\ UNCHANGED <<storeVars, wBiz, wCats, wVer, lastBiz, lastCats, nCalls, batchVars, adminVars, callVars>>

---------------------------------------------------------------------------
(* The three cache writes of smartSync                                      *)
(*                                                                         *)
(* A readwrite transaction holds its object store from its first request   *)
(* until it completes or aborts: no other transaction on that store runs   *)
(* meanwhile, and an abort restores the content the store had before.      *)

HeldByOther(tx, p) == tx # null /\ tx.owner # p

\* The transaction opened but the collection not cleared.
setCachedBusinesses_clear_skipped(p) ==
    /\ wBiz[p].st = "begin"
    /\ bizTx = null
    /\ bizTx' = [owner |-> p, undo |-> cachedBiz]
    /\ wBiz' = [wBiz EXCEPT ![p] = [st |-> "put", i |-> 0, now |-> DateNow]]
    /\ UNCHANGED <<cachedBiz, cachedCats, dataVersion, catTx, sync, wCats, wVer,
                   lastBiz, lastCats, nCalls, batchVars, adminVars, callVars>>

\* The clear done outside a transaction (db.clear('businesses')): it takes
\* effect at once and nothing holds the store for the puts that follow.
setCachedBusinesses_clear_noTx(p) ==
    /\ wBiz[p].st = "begin"
    /\ bizTx = null
    /\ cachedBiz' = {}
    /\ wBiz' = [wBiz EXCEPT ![p] = [st |-> "put", i |-> 0, now |-> DateNow]]
    /\ UNCHANGED <<cachedCats, dataVersion, bizTx, catTx, sync, wCats, wVer,
                   lastBiz, lastCats, nCalls, batchVars, adminVars, callVars>>

\* const tx = db.transaction('businesses', 'readwrite'); await tx.store.clear();
\* const now = Date.now()
setCachedBusinesses_clear(p) ==
    /\ wBiz[p].st = "begin"
    /\ bizTx = null
    /\ bizTx' = [owner |-> p, undo |-> cachedBiz]
    /\ cachedBiz' = {}
    /\ wBiz' = [wBiz EXCEPT ![p] = [st |-> "put", i |-> 0, now |-> DateNow]]
    /\ UNCHANGED <<cachedCats, dataVersion, catTx, sync, wCats, wVer,
                   lastBiz, lastCats, nCalls, batchVars, adminVars, callVars>>

\* await tx.store.put({ ...business, _synced_at: now })
setCachedBusinesses_put(p) ==
    /\ wBiz[p].st = "put"
    /\ wBiz[p].i < Len(sync[p].data.businesses)
    /\ ~HeldByOther(bizTx, p)
    /\ cachedBiz' = StorePut(cachedBiz,
                        WithSyncedAt(sync[p].data.businesses[wBiz[p].i + 1], wBiz[p].now))
    /\ wBiz' = [wBiz EXCEPT ![p].i = @ + 1]
    /\ UNCHANGED <<cachedCats, dataVersion, bizTx, catTx, sync, wCats, wVer,
                   lastBiz, lastCats, nCalls, batchVars, adminVars, callVars>>

\* await tx.done
setCachedBusinesses_done(p) ==
    /\ wBiz[p].st = "put"
    /\ wBiz[p].i = Len(sync[p].data.businesses)
    /\ ~HeldByOther(bizTx, p)
    /\ bizTx' = null
    /\ lastBiz' = Range(sync[p].data.businesses)
    /\ wBiz' = [wBiz EXCEPT ![p].st = "done"]
    /\ sync' = [sync EXCEPT ![p] = JoinWrites(@, "done", wCats[p].st, wVer[p].st)]
    /\ UNCHANGED <<cachedBiz, cachedCats, dataVersion, catTx, wCats, wVer,
                   lastCats, nCalls, batchVars, adminVars, callVars>>

\* initDB, clear or a put rejects: the transaction (if begun) aborts.
setCachedBusinesses_rejects(p) ==
    /\ wBiz[p].st \in {"begin", "put"}
    /\ IF bizTx # null /\ bizTx.owner = p
       THEN cachedBiz' = bizTx.undo /\ bizTx' = null
       ELSE UNCHANGED <<cachedBiz, bizTx>>
    /\ wBiz' = [wBiz EXCEPT ![p].st = "failed"]
    /\ sync' = [sync EXCEPT ![p] = JoinWrites(@, "failed", wCats[p].st, wVer[p].st)]
    /\ UNCHANGED <<cachedCats, dataVersion, catTx, wCats, wVer,
                   lastBiz, lastCats, nCalls, batchVars, adminVars, callVars>>

\* const tx = db.transaction('categories', 'readwrite'); await tx.store.clear()
setCachedCategories_clear(p) ==
    /\ wCats[p].st = "begin"
    /\ catTx = null
    /\ catTx' = [owner |-> p, undo |-> cachedCats]
    /\ cachedCats' = {}
    /\ wCats' = [wCats EXCEPT ![p] = [st |-> "put", i |-> 0, now |-> 0]]
    /\ UNCHANGED <<cachedBiz, dataVersion, bizTx, sync, wBiz, wVer,
                   lastBiz, lastCats, nCalls, batchVars, adminVars, callVars>>

\* await tx.store.put(category)
setCachedCategories_put(p) ==
    /\ wCats[p].st = "put"
    /\ wCats[p].i < Len(sync[p].data.categories)
    /\ ~HeldByOther(catTx, p)
    /\ cachedCats' = StorePut(cachedCats, sync[p].data.categories[wCats[p].i + 1])
    /\ wCats' = [wCats EXCEPT ![p].i = @ + 1]
    /\ UNCHANGED <<cachedBiz, dataVersion, bizTx, catTx, sync, wBiz, wVer,
                   lastBiz, lastCats, nCalls, batchVars, adminVars, callVars>>

\* await tx.done
setCachedCategories_done(p) ==
    /\ wCats[p].st = "put"
    /\ wCats[p].i = Len(sync[p].data.categories)
    /\ ~HeldByOther(catTx, p)
    /\ catTx' = null
    /\ lastCats' = Range(sync[p].data.categories)
    /\ wCats' = [wCats EXCEPT ![p].st = "done"]
    /\ sync' = [sync EXCEPT ![p] = JoinWrites(@, wBiz[p].st, "done", wVer[p].st)]
    /\ UNCHANGED <<cachedBiz, cachedCats, dataVersion, bizTx, wBiz, wVer,
                   lastBiz, nCalls, batchVars, adminVars, callVars>>

setCachedCategories_rejects(p) ==
    /\ wCats[p].st \in {"begin", "put"}
    /\ IF catTx # null /\ catTx.owner = p
       THEN cachedCats' = catTx.undo /\ catTx' = null
       ELSE UNCHANGED <<cachedCats, catTx>>
    /\ wCats' = [wCats EXCEPT ![p].st = "failed"]
    /\ sync' = [sync EXCEPT ![p] = JoinWrites(@, wBiz[p].st, "failed", wVer[p].st)]
    /\ UNCHANGED <<cachedBiz, dataVersion, bizTx, wBiz, wVer,
                   lastBiz, lastCats, nCalls, batchVars, adminVars, callVars>>

\* setLocalVersion -> setMetadata('data_version', version): db.put resolves.
setLocalVersion_resolves(p) ==
    /\ wVer[p].st = "pending"
    /\ dataVersion' = wVer[p].value
    /\ wVer' = [wVer EXCEPT ![p].st = "done"]
    /\ sync' = [sync EXCEPT ![p] = JoinWrites(@, wBiz[p].st, wCats[p].st, "done")]
    /\ UNCHANGED <<cachedBiz, cachedCats, bizTx, catTx, wBiz, wCats,
                   lastBiz, lastCats, nCalls, batchVars, adminVars, callVars>>

setLocalVersion_rejects(p) ==
    /\ wVer[p].st = "pending"
    /\ wVer' = [wVer EXCEPT ![p].st = "failed"]
    /\ sync' = [sync EXCEPT ![p] = JoinWrites(@, wBiz[p].st, wCats[p].st, "failed")]
    /\ UNCHANGED <<storeVars, wBiz, wCats, lastBiz, lastCats, nCalls, batchVars, adminVars, callVars>>

\* The caller has taken the outcome and every write the call started has
\* settled: the slot is free for the next smartSync call.
SmartSyncSettled(p) ==
    /\ sync[p].pc \in {"returned", "threw"}
    /\ ~Running(wBiz[p]) /\ ~Running(wCats[p]) /\ ~Running(wVer[p])
    /\ sync' = [sync EXCEPT ![p] = IdleSync]
    /\ wBiz' = [wBiz EXCEPT ![p] = IdleTask]
    /\ wCats' = [wCats EXCEPT ![p] = IdleTask]
    /\ wVer' = [wVer EXCEPT ![p] = IdleVer]
    /\ UNCHANGED <<storeVars, lastBiz, lastCats, nCalls, batchVars, adminVars, callVars>>

---------------------------------------------------------------------------
(* The event batcher of trackingService                                    *)

\* const MAX_QUEUE_SIZE = 10
MAX_QUEUE_SIZE == 10

\* const FLUSH_INTERVAL = 5000
FLUSH_INTERVAL == 5000

\* The clock advances in steps of half a flush interval, MaxTicks times.
TickMs == FLUSH_INTERVAL \div 2

MaxTicks == 3

\* beforeunload events in one run.
MaxUnloads == 1

\* queueEvent calls in one run.
MaxEvents == 11

\* flushEvents runs that swap the queue in one run.
MaxFlushes == 2

\* The tables flushEvents inserts into, in the order it inserts.
Tables == <<"business_interactions", "visit_logs", "ai_search_logs">>

\* The streams of calls: all calls on one table (trackBusinessInteraction,
\* trackUserVisit or trackAiSearch alone), or the three in rotation.
Streams ==
    {[i \in 1..MaxEvents |-> Tables[k]] : k \in 1..Len(Tables)}
    \cup {[i \in 1..MaxEvents |-> Tables[(i % Len(Tables)) + 1]]}

\* eventQueue.push({ table, data }): the payload is the number of the call.
Event(i) == [table |-> stream[i], data |-> i]

\* eventsToSend.filter(e => e.table === t)
Group(events, t) == SelectSeq(events, LAMBDA e : e.table = t)

\* group.map(e => e.data)
Payloads(events) == [i \in 1..Len(events) |-> events[i].data]

\* analyticsClient.from(t).insert(rows)
Request(events, k) ==
    [table |-> Tables[k], rows |-> Payloads(Group(events, Tables[k]))]

\* The first table from the k-th on whose group is not empty (0: none).
NextGroup(events, k) ==
    LET ks == {j \in k..Len(Tables) : Group(events, Tables[j]) # <<>>}
    IN  IF ks = {} THEN 0 ELSE CHOOSE j \in ks : \A m \in ks : j <= m

\* eventsToSend = [...eventQueue] with the queue left as it is.
FlushSwap_keepsQueue(q) == [eventsToSend |-> q, eventQueue |-> q]

\* const eventsToSend = [...eventQueue]; eventQueue = [];
FlushSwap(q) == [eventsToSend |-> q, eventQueue |-> <<>>]

\* The ways an awaited call ends.
Returned(v) == [kind |-> "returned", value |-> v]
Threw(e) == [kind |-> "threw", value |-> e]

\* analyticsClient is created exactly when isAnalyticsEnabled holds.
AnalyticsConfigured(enabled) == enabled

\* if (!analyticsClient || !isAnalyticsEnabled) return fallbackValue;
\* otherwise the operation is run.
OperationRuns(enabled) == AnalyticsConfigured(enabled)

\* safeAnalyticsOperation without its try/catch.
safeAnalyticsOperation_rethrows(enabled, outcome, fallbackValue) ==
    IF ~AnalyticsConfigured(enabled) THEN Returned(fallbackValue) ELSE outcome

\* safeAnalyticsOperation that answers fallbackValue whatever the operation returns.
safeAnalyticsOperation_fallbackOnly(enabled, outcome, fallbackValue) ==
    Returned(fallbackValue)

\* safeAnalyticsOperation(operation, fallbackValue), for an operation that
\* ends as outcome when it is run.
safeAnalyticsOperation(enabled, outcome, fallbackValue) ==
    IF ~AnalyticsConfigured(enabled)
    THEN Returned(fallbackValue)
    ELSE IF outcome.kind = "threw" THEN Returned(fallbackValue)
         ELSE outcome

\* safeAnalyticsOperation runs the operation up to its first await: the insert
\* of the first non-empty group is issued.
StartFlush(events) ==
    LET k == NextGroup(events, 1)
    IN  [batch |-> events, at |-> k,
         sent |-> IF k = 0 THEN <<>> ELSE <<Request(events, k)>>,
         result |-> null]

\* flushEvents that returns when an earlier flush still awaits an insert.
flushEvents_oneAtATime(q) ==
    IF q = <<>> \/ ~isAnalyticsEnabled \/ \E k \in 1..Len(flushes) : flushes[k].at # 0
    THEN [eventQueue |-> q, flushes |-> flushes]
    ELSE LET swap == FlushSwap(q)
         IN  [eventQueue |-> swap.eventQueue,
              flushes |-> Append(flushes, StartFlush(swap.eventsToSend))]

\* flushEvents() on queue q, up to its first suspension.
flushEvents(q) ==
    IF q = <<>> \/ ~isAnalyticsEnabled
    THEN [eventQueue |-> q, flushes |-> flushes]
    ELSE LET swap == FlushSwap(q)
         IN  [eventQueue |-> swap.eventQueue,
              flushes |-> Append(flushes, StartFlush(swap.eventsToSend))]

\* The model follows a run while flushEvents has swapped fewer than MaxFlushes queues.
FlushInBounds(q) == q = <<>> \/ ~isAnalyticsEnabled \/ Len(flushes) < MaxFlushes

\* scheduleFlush without the clearTimeout.
scheduleFlush_noClear(h) ==
    [flushTimeout |-> h,
     timers |-> timers \cup {h},
     due |-> [x \in timers \cup {h} |->
                IF x = h THEN clock + FLUSH_INTERVAL ELSE due[x]]]

\* scheduleFlush that leaves a pending timer as it is (an interval, no debounce).
scheduleFlush_keepPending(h) ==
    IF timers # {}
    THEN [flushTimeout |-> flushTimeout, timers |-> timers, due |-> due]
    ELSE [flushTimeout |-> h, timers |-> {h},
          due |-> [x \in {h} |-> clock + FLUSH_INTERVAL]]

\* scheduleFlush that clears the pending timer and sets none.
scheduleFlush_clearOnly(h) ==
    [flushTimeout |-> 0,
     timers |-> timers \ {flushTimeout},
     due |-> [x \in timers \ {flushTimeout} |-> due[x]]]

\* if (flushTimeout) clearTimeout(flushTimeout);
\* flushTimeout = setTimeout(flushEvents, FLUSH_INTERVAL)
scheduleFlush(h) ==
    [flushTimeout |-> h,
     timers |-> (timers \ {flushTimeout}) \cup {h},
     due |-> [x \in (timers \ {flushTimeout}) \cup {h} |->
                IF x = h THEN clock + FLUSH_INTERVAL ELSE due[x]]]

\* queueEvent without its guard.
queueEventEnabled_always == TRUE

\* if (!isAnalyticsEnabled) return;
queueEventEnabled == isAnalyticsEnabled

\* The threshold test with > in place of >=.
QueueFull_above(q) == Len(q) > MAX_QUEUE_SIZE

\* if (eventQueue.length >= MAX_QUEUE_SIZE)
QueueFull(q) == Len(q) >= MAX_QUEUE_SIZE

\* queueEvent(table, data), the call numbered nextEventId: what it does to the
\* batcher.
QueueEventCall ==
    /\ nextEventId <= MaxEvents
    /\ nextEventId' = nextEventId + 1
    /\ IF ~queueEventEnabled
       THEN /\ lastEnqueue' = "dropped"
            /\ UNCHANGED <<eventQueue, flushTimeout, timers, flushes, due,
                           lastPushAt, flushCause>>
       ELSE LET q == Append(eventQueue, Event(nextEventId))
            IN  /\ lastPushAt' = clock
                /\ IF QueueFull(q)
                   THEN /\ FlushInBounds(q)
                        /\ eventQueue' = flushEvents(q).eventQueue
                        /\ flushes' = flushEvents(q).flushes
                        /\ flushCause' = Append(flushCause, "threshold")
                        /\ lastEnqueue' = "flushed"
                        /\ UNCHANGED <<flushTimeout, timers, due>>
                   ELSE /\ eventQueue' = q
                        /\ flushTimeout' = scheduleFlush(nextEventId).flushTimeout
                        /\ timers' = scheduleFlush(nextEventId).timers
                        /\ due' = scheduleFlush(nextEventId).due
                        /\ lastEnqueue' = "scheduled"
                        /\ UNCHANGED <<flushes, flushCause>>
    /\ UNCHANGED <<isAnalyticsEnabled, stream, unloads, clock>>

\* queueEvent(table, data) called by a tracking function on its own.
queueEvent ==
    /\ QueueEventCall
    /\ UNCHANGED <<storeVars, sync, wBiz, wCats, wVer, lastBiz, lastCats, nCalls,
                   adminVars, callVars>>

\* The timer set by scheduleFlush fires: setTimeout(flushEvents, FLUSH_INTERVAL).
FlushTimerFires ==
    /\ \E h \in timers :
          /\ due[h] <= clock
          /\ timers' = timers \ {h}
          /\ due' = [x \in timers \ {h} |-> due[x]]
    /\ FlushInBounds(eventQueue)
    /\ eventQueue' = flushEvents(eventQueue).eventQueue
    /\ flushes' = flushEvents(eventQueue).flushes
    /\ flushCause' = IF flushes' = flushes THEN flushCause
                                           ELSE Append(flushCause, "timer")
    /\ UNCHANGED <<storeVars, sync, wBiz, wCats, wVer, lastBiz, lastCats, nCalls,
                   adminVars, callVars, isAnalyticsEnabled, stream, unloads, flushTimeout, nextEventId, lastEnqueue,
                   clock, lastPushAt>>

\* Time passes.
ClockAdvances ==
    /\ clock < MaxTicks * TickMs
    /\ clock' = clock + TickMs
    /\ UNCHANGED <<storeVars, sync, wBiz, wCats, wVer, lastBiz, lastCats, nCalls,
                   adminVars, callVars, isAnalyticsEnabled, stream, unloads, eventQueue, flushTimeout, timers,
                   flushes, nextEventId, lastEnqueue, due, lastPushAt, flushCause>>

\* window.addEventListener('beforeunload', () => { flushEvents(); })
BeforeUnload ==
    /\ unloads < MaxUnloads
    /\ unloads' = unloads + 1
    /\ FlushInBounds(eventQueue)
    /\ eventQueue' = flushEvents(eventQueue).eventQueue
    /\ flushes' = flushEvents(eventQueue).flushes
    /\ flushCause' = IF flushes' = flushes THEN flushCause
                                           ELSE Append(flushCause, "unload")
    /\ UNCHANGED <<storeVars, sync, wBiz, wCats, wVer, lastBiz, lastCats, nCalls,
                   adminVars, callVars, isAnalyticsEnabled, stream, flushTimeout, timers, nextEventId,
                   lastEnqueue, clock, due, lastPushAt>>

\* The awaited insert of flush k resolves, with or without an error result
\* (an error result is logged): the insert of the next non-empty group is issued.
InsertResolves(k) ==
    /\ flushes[k].at # 0
    /\ LET n == NextGroup(flushes[k].batch, flushes[k].at + 1)
       IN  flushes' = [flushes EXCEPT
                ![k].at = n,
                ![k].sent = IF n = 0 THEN @ ELSE Append(@, Request(flushes[k].batch, n)),
                ![k].result = IF n # 0 THEN @
                              ELSE safeAnalyticsOperation(isAnalyticsEnabled,
                                       Returned("undefined"), "undefined")]
    /\ UNCHANGED <<storeVars, sync, wBiz, wCats, wVer, lastBiz, lastCats, nCalls,
                   adminVars, callVars, isAnalyticsEnabled, stream, unloads, eventQueue, flushTimeout, timers,
                   nextEventId, lastEnqueue, clock, due, lastPushAt, flushCause>>

\* The awaited insert of flush k throws: safeAnalyticsOperation catches it and
\* the operation ends.
InsertThrows(k) ==
    /\ flushes[k].at # 0
    /\ flushes' = [flushes EXCEPT
            ![k].at = 0,
            ![k].result = safeAnalyticsOperation(isAnalyticsEnabled,
                              Threw("insert failed"), "undefined")]
    /\ UNCHANGED <<storeVars, sync, wBiz, wCats, wVer, lastBiz, lastCats, nCalls,
                   adminVars, callVars, isAnalyticsEnabled, stream, unloads, eventQueue, flushTimeout, timers,
                   nextEventId, lastEnqueue, clock, due, lastPushAt, flushCause>>

---------------------------------------------------------------------------
(* The admin mutations: supabaseService and the handlers of App            *)

\* handleSaveBusiness / handleDeleteBusiness calls in one run.
MaxAdminOps == 2

\* The ids the remote table generates for added rows.
NewIds == {"n1", "n2", "n3", "n4"}

IdleAdmin ==
    [pc |-> "idle", op |-> "none", business |-> null, before |-> {},
     error |-> "none", outcome |-> null, alerts |-> <<>>, n |-> 0]

\* clearCache not called.
IdleClear == [pc |-> "idle", cleared |-> {}, callsAtDone |-> 0, hadData |-> FALSE]

\* The page just loaded, in the foreground: let lastActivity = Date.now(),
\* let isTabActive = true, let pingInterval = null; startLiveTracking not called.
IdlePresence ==
    [now |-> 0, hidden |-> FALSE, isTabActive |-> TRUE, lastActivity |-> 0,
     pingInterval |-> 0, active |-> {}, due |-> <<>>, calls |-> <<>>,
     listeners |-> 0, beacons |-> 0, lastPing |-> [sent |-> FALSE, by |-> "none", at |-> 0, hidden |-> FALSE, gap |-> 0,
                  device_id |-> "none", onConflict |-> "none"],
     overlapped |-> FALSE, unloaded |-> FALSE]

\* AiAssistant as mounted: useState(null), useState(false), useState('').
IdleAi ==
    [pc |-> "idle", query |-> "", response |-> null, error |-> "", isLoading |-> FALSE,
     logged |-> <<>>, tracked |-> <<>>, raised |-> FALSE, n |-> 0,
     modelName |-> "", hasKey |-> FALSE]

\* No load has finished, none is running.
IdleLoads == [failed |-> FALSE, done |-> <<>>]

\* trackUserVisit not called.
IdleVisit ==
    [pc |-> "idle", userName |-> "", stored |-> "", existingUser |-> FALSE,
     logged |-> <<>>, n |-> 0]

\* App as mounted.
IdleApp ==
    [currentUser |-> "", adminView |-> "none", showLogin |-> FALSE,
     businessToEdit |-> FALSE, isSaving |-> FALSE,
     session |-> "", load |-> "getCurrentUser", loadUser |-> "",
     login |-> "idle", loginUser |-> "", loginThrew |-> FALSE, logins |-> 0,
     logout |-> "idle", checked |-> {}]

PageIdle ==
    /\ presence = IdlePresence /\ ai = IdleAi
    /\ loads = IdleLoads /\ visit = IdleVisit /\ app = IdleApp

\* No single call is being followed.
CallsIdle == safeOp = null /\ clear = IdleClear /\ PageIdle

AdminIdle ==
    /\ remoteBiz = {}
    /\ businessData = {}
    /\ admin = IdleAdmin
    /\ CallsIdle

\* .update(dbBusiness).eq('id', business.id).select().single()
RemoteUpdate(remote, b) ==
    IF \E r \in remote : r.id = b.id
    THEN [remote |-> {r \in remote : r.id # b.id} \cup {b}, data |-> b, error |-> "none"]
    ELSE [remote |-> remote, data |-> null, error |-> "PGRST116"]

\* .insert([dbBusiness]).select().single(): the table generates the id.
RemoteInsert(remote, b) ==
    LET id == CHOOSE i \in NewIds : \A r \in remote : r.id # i
        row == [b EXCEPT !.id = id]
    IN  [remote |-> remote \cup {row}, data |-> row, error |-> "none"]

\* .delete().eq('id', businessId)
RemoteDelete(remote, id) ==
    [remote |-> {r \in remote : r.id # id}, data |-> null, error |-> "none"]

\* A request that fails: network, auth.
RemoteFails(remote, e) == [remote |-> remote, data |-> null, error |-> e]

\* A service function that returns its data whatever the error.
ThrowIfError_ignores(response) == Returned(response.data)

\* if (error) throw error; return dbBusinessToBusiness(data);
ThrowIfError(response) ==
    IF response.error # "none" THEN Threw(response.error)
                             ELSE Returned(response.data)

\* The businesses the admin form saves: an existing id, or none for a new one.
SaveInputs == {Biz(i, r) : i \in BizIds \cup {""}, r \in Revs}

\* handleSaveBusiness(businessToSave), up to its first await: the business data
\* and the remote table.
SaveBusinessBegins(b) ==
    /\ admin.pc = "idle"
    /\ admin.n < MaxAdminOps
    /\ admin' = [IdleAdmin EXCEPT
                    !.pc = "mutating",
                    !.op = IF b.id # "" THEN "updateBusiness" ELSE "addBusiness",
                    !.business = b,
                    !.before = businessData,
                    !.n = admin.n + 1]
    /\ UNCHANGED <<remoteBiz, businessData>>

\* handleSaveBusiness(businessToSave), up to its first await.
HandleSaveBusinessCall(b) ==
    /\ SaveBusinessBegins(b)
    /\ UNCHANGED <<storeVars, sync, wBiz, wCats, wVer, lastBiz, lastCats, nCalls,
                   batchVars, callVars>>

\* EditBusinessList.handleDelete(businessId), confirmed: onDelete(businessId),
\* that is handleDeleteBusiness, up to its first await.
HandleDeleteCall(id) ==
    /\ admin.pc = "idle"
    /\ admin.n < MaxAdminOps
    /\ admin' = [IdleAdmin EXCEPT
                    !.pc = "mutating",
                    !.op = "deleteBusiness",
                    !.business = Biz(id, 0),
                    !.before = businessData,
                    !.n = admin.n + 1]
    /\ UNCHANGED <<storeVars, sync, wBiz, wCats, wVer, lastBiz, lastCats, nCalls,
                   batchVars, callVars, remoteBiz, businessData>>

\* What the remote service answers to the mutation of the handler.
MutationResponses ==
    { RemoteFails(remoteBiz, "network"),
      CASE admin.op = "updateBusiness" -> RemoteUpdate(remoteBiz, admin.business)
        [] admin.op = "addBusiness" -> RemoteInsert(remoteBiz, admin.business)
        [] OTHER -> RemoteDelete(remoteBiz, admin.business.id) }

\* await SupabaseService.updateBusiness / addBusiness / deleteBusiness ends.
\* On success handleSaveBusiness alerts and both handlers call fetchBusinesses;
\* on a throw handleSaveBusiness alerts the error, handleDeleteBusiness
\* rethrows and EditBusinessList.handleDelete alerts it.
MutationEnds ==
    /\ admin.pc = "mutating"
    /\ \E response \in MutationResponses :
          LET outcome == ThrowIfError(response)
          IN  /\ remoteBiz' = response.remote
              /\ admin' = [admin EXCEPT
                    !.error = response.error,
                    !.outcome = outcome,
                    !.pc = IF outcome.kind = "threw" THEN "idle" ELSE "fetching",
                    !.alerts = IF outcome.kind = "threw" THEN <<"error">>
                               ELSE IF admin.op = "deleteBusiness" THEN <<>>
                               ELSE <<"success">>]
    /\ UNCHANGED businessData

MutationSettles ==
    /\ MutationEnds
    /\ UNCHANGED <<storeVars, sync, wBiz, wCats, wVer, lastBiz, lastCats, nCalls,
                   batchVars, callVars>>

\* const businesses = await SupabaseService.fetchBusinesses() resolves:
\* setBusinessData(prev => ({ ...prev, businesses })).
RefetchResolves ==
    /\ admin.pc = "fetching"
    /\ businessData' = remoteBiz
    /\ admin' = [admin EXCEPT
                    !.pc = "idle",
                    !.alerts = IF admin.op = "deleteBusiness"
                               THEN Append(@, "success") ELSE @]
    /\ UNCHANGED remoteBiz

FetchBusinessesResolves ==
    /\ RefetchResolves
    /\ UNCHANGED <<storeVars, sync, wBiz, wCats, wVer, lastBiz, lastCats, nCalls,
                   batchVars, callVars>>

\* await SupabaseService.fetchBusinesses() throws: the catch block alerts.
RefetchRejects ==
    /\ admin.pc = "fetching"
    /\ admin' = [admin EXCEPT !.pc = "idle", !.alerts = Append(@, "error")]
    /\ UNCHANGED <<remoteBiz, businessData>>

FetchBusinessesRejects ==
    /\ RefetchRejects
    /\ UNCHANGED <<storeVars, sync, wBiz, wCats, wVer, lastBiz, lastCats, nCalls,
                   batchVars, callVars>>

---------------------------------------------------------------------------
(* The cache/sync specification: smartSync calls on one store              *)

BatchIdle ==
    /\ isAnalyticsEnabled = FALSE
    /\ stream = [i \in 1..MaxEvents |-> Tables[1]]
    /\ eventQueue = <<>>
    /\ flushTimeout = 0
    /\ timers = {}
    /\ flushes = <<>>
    /\ nextEventId = 1
    /\ lastEnqueue = "none"
    /\ clock = 0
    /\ due = <<>>
    /\ lastPushAt = 0
    /\ flushCause = <<>>
    /\ unloads = 0

SyncIdle ==
    /\ sync = [p \in Procs |-> IdleSync]
    /\ wBiz = [p \in Procs |-> IdleTask]
    /\ wCats = [p \in Procs |-> IdleTask]
    /\ wVer = [p \in Procs |-> IdleVer]
    /\ nCalls = 0

StoreEmpty ==
    /\ cachedBiz = {}
    /\ cachedCats = {}
    /\ dataVersion = null
    /\ bizTx = null
    /\ catTx = null
    /\ lastBiz = {}
    /\ lastCats = {}

SyncInit == StoreEmpty /\ SyncIdle /\ BatchIdle /\ AdminIdle

SyncNext ==
    \E p \in SyncProcs :
        \/ SmartSyncCall(p)
        \/ FetchRemoteVersionResolves(p)
        \/ FetchRemoteVersionRejects(p)
        \/ CheckSyncNeededResolves(p)
        \/ CheckSyncNeededRejects(p)
        \/ GetCachedBusinessesResolves(p)
        \/ GetCachedBusinessesRejects(p)
        \/ GetCachedCategoriesResolves(p)
        \/ GetCachedCategoriesRejects(p)
        \/ FetchAllDataResolves(p)
        \/ FetchAllDataRejects(p)
        \/ setCachedBusinesses_clear(p)
        \/ setCachedBusinesses_put(p)
        \/ setCachedBusinesses_done(p)
        \/ setCachedBusinesses_rejects(p)
        \/ setCachedCategories_clear(p)
        \/ setCachedCategories_put(p)
        \/ setCachedCategories_done(p)
        \/ setCachedCategories_rejects(p)
        \/ setLocalVersion_resolves(p)
        \/ setLocalVersion_rejects(p)
        \/ SmartSyncSettled(p)

SyncSpec == SyncInit /\ [][SyncNext]_vars

---------------------------------------------------------------------------
(* Claims about smartSync, checked under SyncSpec                          *)

NoWritesBy(p) ==
    /\ sync[p].nSetBiz = 0 /\ sync[p].nSetCats = 0 /\ sync[p].nSetVersion = 0
    /\ wBiz[p].st = "none" /\ wCats[p].st = "none" /\ wVer[p].st = "none"

\* C1: a smartSync call that found the stored descriptor equal to the remote
\* one in count and last_updated never calls fetchAllData and never writes to
\* the local store, and when it returns, it returns 'no_change' with
\* fromCache = true and the businesses and categories that are in the store.
C1_NoChangeServesCache ==
    \A p \in Procs :
        sync[p].localWas = "equal" =>
            /\ sync[p].nFetchAll = 0
            /\ NoWritesBy(p)
            /\ sync[p].pc = "returned" =>
                  sync[p].result = [action |-> "no_change",
                                    businesses |-> getCachedBusinesses,
                                    categories |-> getCachedCategories,
                                    fromCache |-> TRUE]

\* C1 witness: a call has returned from a cache of two businesses whose
\* descriptor equalled the remote one.
C1_Witness ==
    \E p \in Procs :
        /\ sync[p].pc = "returned"
        /\ sync[p].localWas = "equal"
        /\ ~sync[p].caught
        /\ Cardinality(sync[p].result.businesses) = 2

\* C2: a smartSync call that found the stored descriptor different from the
\* remote one in count or last_updated, and in which no step failed, returns
\* 'full_sync' with fromCache = false and the fetched data, after exactly one
\* fetchAllData, one setCachedBusinesses and one setCachedCategories; the store
\* then holds the fetched records and a descriptor with the remote's count and
\* last_updated.
C2_FullSyncReplaces ==
    \A p \in Procs :
        (sync[p].pc = "returned" /\ sync[p].localWas = "differs" /\ ~sync[p].caught) =>
            /\ sync[p].result = [action |-> "full_sync",
                                 businesses |-> sync[p].data.businesses,
                                 categories |-> sync[p].data.categories,
                                 fromCache |-> FALSE]
            /\ sync[p].nFetchAll = 1
            /\ sync[p].nSetBiz = 1
            /\ sync[p].nSetCats = 1
            /\ getCachedBusinesses = Range(sync[p].data.businesses)
            /\ getCachedCategories = Range(sync[p].data.categories)
            /\ dataVersion # null
            /\ dataVersion.business_count = sync[p].remoteVersion.business_count
            /\ dataVersion.last_updated = sync[p].remoteVersion.last_updated

\* C2 witness: a full sync over a differing stored descriptor has returned.
C2_Witness ==
    \E p \in Procs :
        /\ sync[p].pc = "returned"
        /\ sync[p].localWas = "differs"
        /\ sync[p].result.action = "full_sync"
        /\ Len(sync[p].data.businesses) = 2

\* C3: whatever step of smartSync fails, the call returns the content of the
\* local store with fromCache = true and action 'no_change', and no exception
\* escapes it.
C3_FailureFallsBackToCache ==
    \A p \in Procs :
        sync[p].caught =>
            /\ sync[p].pc # "threw"
            /\ sync[p].pc = "returned" =>
                  /\ sync[p].result.action = "no_change"
                  /\ sync[p].result.fromCache = TRUE

\* C5: every get_all that completes, also one issued while a replace of the
\* same collection is running, returns the complete set of the last replace
\* that committed: the old set before the running replace commits, the new
\* set after, never a cleared or partly repopulated collection.
C5_ReplaceAllAtomic ==
    [][\A p \in Procs :
          /\ (sync[p].rdBiz = "pending" /\ sync'[p].rdBiz = "ok")
                => sync'[p].businesses = lastBiz
          /\ (sync[p].rdCats = "pending" /\ sync'[p].rdCats = "ok")
                => sync'[p].categories = lastCats]_vars

\* C5 witness: a get_all of the businesses is waiting while a replace has
\* cleared the collection and repopulated it only in part.
C5_Witness ==
    \E p \in Procs :
        /\ sync[p].rdBiz = "pending"
        /\ bizTx # null
        /\ wBiz[p].st = "put"
        /\ wBiz[p].i = 1
        /\ Len(sync[p].data.businesses) = 2
        /\ bizTx.undo # {}

---------------------------------------------------------------------------
(* checkSyncNeeded on every pair of descriptors                            *)

StoredVersions ==
    {null} \cup [business_count : 0..MaxCount, last_updated : Stamps, last_sync : Times]

\* A call that has its remote descriptor and is about to compare it with the
\* stored one, for every stored and every remote descriptor.
CheckInit ==
    /\ cachedBiz = {} /\ cachedCats = {} /\ bizTx = null /\ catTx = null
    /\ lastBiz = {} /\ lastCats = {}
    /\ dataVersion \in StoredVersions
    /\ \E v \in RemoteVersions :
          sync = [p \in Procs |->
                    IF p \in SyncProcs
                    THEN [IdleSync EXCEPT !.pc = "getLocalVersion", !.remoteVersion = v]
                    ELSE IdleSync]
    /\ wBiz = [p \in Procs |-> IdleTask]
    /\ wCats = [p \in Procs |-> IdleTask]
    /\ wVer = [p \in Procs |-> IdleVer]
    /\ nCalls = 1
    /\ BatchIdle
    /\ AdminIdle

CheckNext ==
    \E p \in SyncProcs :
        \/ CheckSyncNeededResolves(p)
        \/ CheckSyncNeededRejects(p)

CheckSpec == CheckInit /\ [][CheckNext]_vars

WithLastSync(v, t) == IF v = null THEN null ELSE [v EXCEPT !.last_sync = t]

\* C4: checkSyncNeeded answers 'full_sync' exactly when the stored descriptor
\* is absent or differs from the remote one in count or in last_updated, and
\* 'no_change' otherwise; it never answers 'incremental_sync', and no value of
\* last_sync on either side changes the answer.
C4_StaleIffCountOrStampDiffers ==
    \A p \in Procs :
        sync[p].syncAction # "none" =>
            LET l == dataVersion
                r == sync[p].remoteVersion
                stale == \/ l = null
                         \/ l.business_count # r.business_count
                         \/ l.last_updated # r.last_updated
            IN  /\ sync[p].syncAction = IF stale THEN "full_sync" ELSE "no_change"
                /\ \A t1 \in Times, t2 \in Times :
                      checkSyncNeeded(WithLastSync(l, t1), WithLastSync(r, t2))
                         = sync[p].syncAction

\* C4 witness: descriptors equal in count and last_updated and different in
\* last_sync were compared, and the answer was 'no_change'.
C4_Witness ==
    \E p \in Procs :
        /\ sync[p].syncAction = "no_change"
        /\ dataVersion.last_sync # sync[p].remoteVersion.last_sync

---------------------------------------------------------------------------
(* setCachedBusinesses followed by getCachedBusinesses                     *)

BizRecords == {Biz(i, r) : i \in BizIds, r \in Revs}

DistinctIds(l) == \A i \in 1..Len(l), j \in 1..Len(l) : l[i].id = l[j].id => i = j

\* The lists of business records passed to setCachedBusinesses: the rows of
\* a table keyed by id.
BizLists ==
    {l \in UNION {[1..n -> BizRecords] : n \in 0..MaxList} : DistinctIds(l)}

\* const businesses = await getCachedBusinesses(), right after
\* await setCachedBusinesses(list) has resolved.
GetAfterSet(p) ==
    /\ sync[p].pc = "roundTrip"
    /\ wBiz[p].st = "done"
    /\ BizReadable
    /\ sync' = [sync EXCEPT ![p].pc = "roundTripDone",
                            ![p].businesses = getCachedBusinesses]
    /\ UNCHANGED <<storeVars, wBiz, wCats, wVer, lastBiz, lastCats, nCalls, batchVars, adminVars, callVars>>

\* A caller about to replace the businesses collection, for every prior
\* content of the collection and every list.
StoreInit ==
    /\ \E prior \in BizLists, list \in BizLists :
          /\ cachedBiz = {WithSyncedAt(b, 0) : b \in Range(prior)}
          /\ lastBiz = Range(prior)
          /\ sync = [p \in Procs |->
                       IF p \in SyncProcs
                       THEN [IdleSync EXCEPT
                               !.pc = "roundTrip",
                               !.before = Range(prior),
                               !.data = [businesses |-> list, categories |-> <<>>]]
                       ELSE IdleSync]
    /\ cachedCats = {} /\ dataVersion = null /\ bizTx = null /\ catTx = null
    /\ lastCats = {}
    /\ wBiz = [p \in Procs |->
                 IF p \in SyncProcs THEN [st |-> "begin", i |-> 0, now |-> 0]
                                    ELSE IdleTask]
    /\ wCats = [p \in Procs |-> IdleTask]
    /\ wVer = [p \in Procs |-> IdleVer]
    /\ nCalls = 1
    /\ BatchIdle
    /\ AdminIdle

StoreNext ==
    \E p \in SyncProcs :
        \/ setCachedBusinesses_clear(p)
        \/ setCachedBusinesses_put(p)
        \/ setCachedBusinesses_done(p)
        \/ setCachedBusinesses_rejects(p)
        \/ GetAfterSet(p)

StoreSpec == StoreInit /\ [][StoreNext]_vars

\* C6: whatever the businesses collection held before, getCachedBusinesses
\* right after setCachedBusinesses(list) returns exactly the records of the
\* list, without _synced_at, and none of the records held before.
C6_ReplaceThenGetRoundTrip ==
    \A p \in Procs :
        sync[p].pc = "roundTripDone" =>
            /\ sync[p].businesses = Range(sync[p].data.businesses)
            /\ \A b \in sync[p].before :
                  b \in sync[p].businesses => b \in Range(sync[p].data.businesses)

\* C6 witness: a round trip is done whose list has one record and whose prior
\* collection held two, one of them under a key the list does not have.
C6_Witness ==
    \E p \in Procs :
        /\ sync[p].pc = "roundTripDone"
        /\ Len(sync[p].data.businesses) = 1
        /\ Cardinality(sync[p].before) = 2
        /\ sync[p].businesses # {}

---------------------------------------------------------------------------
(* The batcher specification, with analytics enabled or not                *)

BatchInit ==
    /\ StoreEmpty /\ SyncIdle /\ AdminIdle
    /\ isAnalyticsEnabled \in BOOLEAN
    /\ stream \in Streams
    /\ eventQueue = <<>>
    /\ flushTimeout = 0
    /\ timers = {}
    /\ flushes = <<>>
    /\ nextEventId = 1
    /\ lastEnqueue = "none"
    /\ clock = 0
    /\ due = <<>>
    /\ lastPushAt = 0
    /\ flushCause = <<>>
    /\ unloads = 0

BatchNext ==
    \/ queueEvent
    \/ FlushTimerFires
    \/ ClockAdvances
    \/ BeforeUnload
    \/ \E k \in 1..Len(flushes) : InsertResolves(k)
    \/ \E k \in 1..Len(flushes) : InsertThrows(k)

BatchSpec == BatchInit /\ [][BatchNext]_vars

RECURSIVE Flatten(_)
Flatten(ss) == IF ss = <<>> THEN <<>> ELSE Head(ss) \o Flatten(Tail(ss))

\* The batches of all flushes so far, in the order the flushes swapped.
Batches == [k \in 1..Len(flushes) |-> flushes[k].batch]

\* C7: with analytics disabled, after any number of queueEvent calls, timer
\* callbacks and unloads, the queue is empty, no flush timer was ever set and
\* no flush has issued an insert.
C7_DisabledEnqueueIsNoOp ==
    ~isAnalyticsEnabled =>
        /\ eventQueue = <<>>
        /\ timers = {}
        /\ flushTimeout = 0
        /\ flushes = <<>>

\* C7 witness: analytics is disabled and queueEvent has been called more than
\* MAX_QUEUE_SIZE times.
C7_Witness ==
    /\ ~isAnalyticsEnabled
    /\ lastEnqueue = "dropped"
    /\ nextEventId > MAX_QUEUE_SIZE + 1

\* C8: the batches of the flushes, in the order the flushes swapped, followed
\* by the queue, are the enqueued events in order, each once: an event is in
\* at most one batch, and an event enqueued after a flush swapped is in the
\* batch of the next flush and not in an earlier one.
C8_EachEventInOneFlush ==
    isAnalyticsEnabled =>
        Flatten(Batches) \o eventQueue = [i \in 1..(nextEventId - 1) |-> Event(i)]

\* C8 witness: a second flush has swapped events while the first flush still
\* awaits an insert.
C8_Witness ==
    /\ Len(flushes) = 2
    /\ flushes[1].at # 0
    /\ flushes[2].at # 0
    /\ Len(flushes[2].batch) > 1

\* C9: between handler runs the queue holds fewer than MAX_QUEUE_SIZE events:
\* the queueEvent call that brings it to the threshold swaps it out itself.
C9_QueueBelowThreshold == Len(eventQueue) < MAX_QUEUE_SIZE

\* C9 witness: a queueEvent call has just flushed a queue of MAX_QUEUE_SIZE events.
C9_Witness ==
    /\ lastEnqueue = "flushed"
    /\ eventQueue = <<>>
    /\ flushes # <<>>
    /\ Len(flushes[Len(flushes)].batch) = MAX_QUEUE_SIZE

\* C10: once the queueEvent call that reached the threshold has started its
\* flush, no flush timer is outstanding until a later queueEvent call sets one.
C10_ThresholdFlushCancelsTimer == lastEnqueue = "flushed" => timers = {}


\* C11: at most one flush timer is outstanding in every state, and whenever
\* the queue holds events (1 to MAX_QUEUE_SIZE - 1 of them) exactly one timer
\* is outstanding, the one flushTimeout names.
C11_AtMostOneTimer ==
    /\ Cardinality(timers) <= 1
    /\ eventQueue # <<>> => flushTimeout # 0 /\ timers = {flushTimeout}

\* C11 witness: MAX_QUEUE_SIZE - 1 events were enqueued one after the other,
\* each call replacing the timer of the call before, and one timer is pending.
C11_Witness ==
    /\ Len(eventQueue) = MAX_QUEUE_SIZE - 1
    /\ flushTimeout = eventQueue[Len(eventQueue)].data
    /\ timers = {flushTimeout}


SentTo(k) == {flushes[k].sent[i].table : i \in 1..Len(flushes[k].sent)}

\* C13: a failed insert of one group does not keep the inserts of the other
\* non-empty groups of the flush from being issued: every flush that has
\* ended, whatever the outcome of its inserts, has issued an insert for each
\* of its non-empty groups.
C13_FailedInsertDoesNotStopOtherGroups ==
    \A k \in 1..Len(flushes) :
        flushes[k].at = 0 =>
            \A j \in 1..Len(Tables) :
                Group(flushes[k].batch, Tables[j]) # <<>> => Tables[j] \in SentTo(k)


\* The events of a sequence.
EventsOf(q) == {q[i] : i \in 1..Len(q)}

\* C14: a flush never throws and never retries: a flush that has ended has
\* resolved, whatever its inserts did, and the events a flush swapped out are
\* neither in the queue again nor in the batch of any other flush.
C14_FlushNeverThrowsNorRetries ==
    \A k \in 1..Len(flushes) :
        /\ flushes[k].at = 0 =>
              flushes[k].result # null /\ flushes[k].result.kind = "returned"
        /\ EventsOf(flushes[k].batch) \cap EventsOf(eventQueue) = {}
        /\ \A j \in 1..Len(flushes) :
              j # k => EventsOf(flushes[k].batch) \cap EventsOf(flushes[j].batch) = {}

\* C14 witness: the first flush ended at an insert that threw, with a group
\* never sent, events were enqueued after it and a later flush has sent them.
C14_Witness ==
    /\ Len(flushes) = 2
    /\ flushes[1].at = 0
    /\ \E j \in 1..Len(Tables) :
          Group(flushes[1].batch, Tables[j]) # <<>> /\ Tables[j] \notin SentTo(1)
    /\ flushes[2].at = 0
    /\ eventQueue # <<>>


\* The payloads of the events of a batch that go to table t, in enqueue order.
PayloadsFor(batch, t) ==
    LET es == SelectSeq(batch, LAMBDA e : e.table = t)
    IN  [i \in 1..Len(es) |-> es[i].data]

\* C15: the requests of a flush are one per non-empty group: no two requests
\* of a flush go to the same table, each request carries exactly the payloads
\* of the batch's events for its table, in enqueue order, and is not empty,
\* and once the flush has ended every event of the batch has its payload in
\* exactly one request.
C15_OneRequestPerNonEmptyGroup ==
    \A k \in 1..Len(flushes) :
        LET sent == flushes[k].sent
            batch == flushes[k].batch
        IN  /\ \A i, j \in 1..Len(sent) : sent[i].table = sent[j].table => i = j
            /\ \A i \in 1..Len(sent) :
                  /\ sent[i].rows # <<>>
                  /\ sent[i].rows = PayloadsFor(batch, sent[i].table)
            /\ flushes[k].at = 0 =>
                  \A n \in 1..Len(batch) :
                      Cardinality({i \in 1..Len(sent) :
                          \E m \in 1..Len(sent[i].rows) :
                              sent[i].rows[m] = batch[n].data}) = 1


\* C16: every beforeunload event that finds analytics enabled and events in
\* the queue swaps the queue out and starts the inserts of those events,
\* whether or not a flush timer is pending or an earlier flush is in flight.
C16_UnloadAlwaysFlushes ==
    [][ ( /\ unloads' = unloads + 1
          /\ isAnalyticsEnabled
          /\ eventQueue # <<>> ) =>
              /\ eventQueue' = <<>>
              /\ Len(flushes') = Len(flushes) + 1
              /\ flushes'[Len(flushes')].batch = eventQueue
              /\ flushes'[Len(flushes')].sent # <<>> ]_vars

\* C16 witness: an unload has flushed the queue while the timer set by the
\* last enqueue was pending and the flush before it still awaited an insert.
C16_Witness ==
    /\ Len(flushes) = 2
    /\ flushCause[2] = "unload"
    /\ flushes[1].at # 0
    /\ flushes[2].sent # <<>>
    /\ eventQueue = <<>>
    /\ lastEnqueue = "scheduled"
    /\ timers = {flushTimeout}


---------------------------------------------------------------------------
(* The admin specification: mutations on a synced cache                    *)

\* The cache holds what the last full sync fetched, and the list displayed
\* is that data.
AdminInit ==
    /\ \E d \in DataSets :
          /\ remoteBiz = Range(d.businesses)
          /\ cachedBiz = {WithSyncedAt(b, 0) : b \in Range(d.businesses)}
          /\ lastBiz = Range(d.businesses)
          /\ businessData = Range(d.businesses)
    /\ cachedCats = {} /\ lastCats = {}
    /\ dataVersion = null /\ bizTx = null /\ catTx = null
    /\ SyncIdle /\ BatchIdle /\ CallsIdle
    /\ admin = IdleAdmin

AdminNext ==
    \/ \E b \in SaveInputs : HandleSaveBusinessCall(b)
    \/ \E id \in BizIds : HandleDeleteCall(id)
    \/ MutationSettles
    \/ FetchBusinessesResolves
    \/ FetchBusinessesRejects

AdminSpec == AdminInit /\ [][AdminNext]_vars

\* C17: once the remote service has confirmed a mutation, the businesses
\* collection of the local store reflects it: the saved row is in the
\* collection, or the deleted id is not.
C17_CacheReflectsConfirmedMutation ==
    (admin.outcome # null /\ admin.outcome.kind = "returned") =>
        IF admin.op = "deleteBusiness"
        THEN \A c \in cachedBiz : c.id # admin.business.id
        ELSE admin.outcome.value \in {StripSyncedAt(c) : c \in cachedBiz}


\* C18: when the remote service answers a mutation with an error, the service
\* function throws, the handler ends with an error alert and no success
\* alert, and the list displayed is the list displayed before the call.
C18_MutationErrorSurfaced ==
    admin.error # "none" =>
        /\ admin.outcome.kind = "threw"
        /\ admin.outcome.value = admin.error
        /\ admin.pc = "idle"
        /\ admin.alerts = <<"error">>
        /\ businessData = admin.before

\* C18 witness: after an earlier mutation that succeeded, a delete of a
\* displayed business failed with an error of the remote service.
C18_Witness ==
    /\ admin.n = 2
    /\ admin.op = "deleteBusiness"
    /\ admin.error = "network"
    /\ admin.alerts = <<"error">>
    /\ \E b \in businessData : b.id = admin.business.id


---------------------------------------------------------------------------
(* safeAnalyticsOperation on every operation and fallback value            *)

\* The values an operation returns or throws and a caller passes as fallback.
MaxValue == 4

OpValues == 0..MaxValue

\* An operation returns a value or throws one.
OpOutcomes == {Returned(v) : v \in OpValues} \cup {Threw(e) : e \in OpValues}

\* A caller about to call safeAnalyticsOperation(operation, fallbackValue),
\* with analytics configured or not, for an operation that would end as outcome.
SafeOpInit ==
    /\ StoreEmpty /\ SyncIdle /\ BatchIdle
    /\ remoteBiz = {} /\ businessData = {} /\ admin = IdleAdmin
    /\ \E enabled \in BOOLEAN, outcome \in OpOutcomes, fallbackValue \in OpValues :
          safeOp = [enabled |-> enabled, outcome |-> outcome,
                    fallbackValue |-> fallbackValue, ran |-> FALSE, result |-> null]
    /\ clear = IdleClear
    /\ PageIdle

\* await safeAnalyticsOperation(operation, fallbackValue) ends.
SafeAnalyticsOperationCall ==
    /\ safeOp # null
    /\ safeOp.result = null
    /\ safeOp' = [safeOp EXCEPT
            !.ran = OperationRuns(safeOp.enabled),
            !.result = safeAnalyticsOperation(safeOp.enabled, safeOp.outcome,
                                              safeOp.fallbackValue)]
    /\ UNCHANGED <<storeVars, sync, wBiz, wCats, wVer, lastBiz, lastCats, nCalls,
                   batchVars, adminVars, clear, pageVars>>

SafeOpNext == SafeAnalyticsOperationCall

SafeOpSpec == SafeOpInit /\ [][SafeOpNext]_vars

\* C19: safeAnalyticsOperation never throws. Not configured, it returns the
\* fallback value and does not run the operation; configured, it runs the
\* operation and returns the fallback value when the operation throws and the
\* operation's own result otherwise.
C19_AnalyticsErrorsSwallowed ==
    (safeOp # null /\ safeOp.result # null) =>
        /\ safeOp.result.kind = "returned"
        /\ safeOp.ran = safeOp.enabled
        /\ safeOp.result.value =
              IF safeOp.enabled /\ safeOp.outcome.kind = "returned"
              THEN safeOp.outcome.value
              ELSE safeOp.fallbackValue

\* C19 witness: the configured call of an operation that returns a value
\* other than the fallback value has returned that value.
C19_Witness ==
    /\ safeOp # null /\ safeOp.result # null
    /\ safeOp.enabled
    /\ safeOp.outcome.kind = "returned"
    /\ safeOp.outcome.value # safeOp.fallbackValue
    /\ safeOp.result.value = safeOp.outcome.value


---------------------------------------------------------------------------
(* clearCache between smartSync calls                                      *)

\* The object stores clearCache clears.
StoreNames == {"businesses", "categories", "metadata"}

\* No smartSync call is in progress and every write of the last one has settled.
NoSyncInProgress == \A p \in Procs : sync[p].pc = "idle"

\* clearCache(), up to Promise.all: initDB resolved, the three clears issued.
\* One clearCache call is followed in a run.
ClearCacheCall ==
    /\ clear.pc = "idle"
    /\ NoSyncInProgress
    /\ clear' = [pc |-> "running", cleared |-> {}, callsAtDone |-> 0,
                 hadData |-> cachedBiz # {} /\ cachedCats # {} /\ dataVersion # null]
    /\ UNCHANGED <<storeVars, sync, wBiz, wCats, wVer, lastBiz, lastCats, nCalls,
                   batchVars, adminVars, safeOp, pageVars>>

\* clearCache(): initDB rejects, nothing is cleared.
ClearCacheRejects ==
    /\ clear.pc = "running"
    /\ clear.cleared = {}
    /\ clear' = [clear EXCEPT !.pc = "failed"]
    /\ UNCHANGED <<storeVars, sync, wBiz, wCats, wVer, lastBiz, lastCats, nCalls,
                   batchVars, adminVars, safeOp, pageVars>>

\* The position of clearCache after the clear of store name: Promise.all
\* resolves with the last of the three.
Cleared(name) ==
    LET done == clear.cleared \cup {name}
    IN  [clear EXCEPT !.cleared = done,
                      !.pc = IF done = StoreNames THEN "done" ELSE @,
                      !.callsAtDone = IF done = StoreNames THEN nCalls ELSE @]

\* db.clear('businesses') resolves.
clearCache_businesses ==
    /\ clear.pc = "running"
    /\ "businesses" \notin clear.cleared
    /\ BizReadable
    /\ cachedBiz' = {}
    /\ lastBiz' = {}
    /\ clear' = Cleared("businesses")
    /\ UNCHANGED <<cachedCats, dataVersion, bizTx, catTx, sync, wBiz, wCats, wVer,
                   lastCats, nCalls, batchVars, adminVars, safeOp, pageVars>>

\* db.clear('categories') resolves.
clearCache_categories ==
    /\ clear.pc = "running"
    /\ "categories" \notin clear.cleared
    /\ CatsReadable
    /\ cachedCats' = {}
    /\ lastCats' = {}
    /\ clear' = Cleared("categories")
    /\ UNCHANGED <<cachedBiz, dataVersion, bizTx, catTx, sync, wBiz, wCats, wVer,
                   lastBiz, nCalls, batchVars, adminVars, safeOp, pageVars>>

\* clearCache that leaves the metadata store as it is.
clearCache_metadata_kept ==
    /\ clear.pc = "running"
    /\ "metadata" \notin clear.cleared
    /\ clear' = Cleared("metadata")
    /\ UNCHANGED <<storeVars, sync, wBiz, wCats, wVer, lastBiz, lastCats, nCalls,
                   batchVars, adminVars, safeOp, pageVars>>

\* db.clear('metadata') resolves: the entry 'data_version' is gone.
clearCache_metadata ==
    /\ clear.pc = "running"
    /\ "metadata" \notin clear.cleared
    /\ dataVersion' = null
    /\ clear' = Cleared("metadata")
    /\ UNCHANGED <<cachedBiz, cachedCats, bizTx, catTx, sync, wBiz, wCats, wVer,
                   lastBiz, lastCats, nCalls, batchVars, adminVars, safeOp, pageVars>>

ClearInit == SyncInit

\* The steps of smartSync calls in which nothing fails.
SyncStepsOk ==
    \E p \in SyncProcs :
        \/ SmartSyncCall(p)
        \/ FetchRemoteVersionResolves(p)
        \/ CheckSyncNeededResolves(p)
        \/ GetCachedBusinessesResolves(p)
        \/ GetCachedCategoriesResolves(p)
        \/ FetchAllDataResolves(p)
        \/ setCachedBusinesses_clear(p)
        \/ setCachedBusinesses_put(p)
        \/ setCachedBusinesses_done(p)
        \/ setCachedCategories_clear(p)
        \/ setCachedCategories_put(p)
        \/ setCachedCategories_done(p)
        \/ setLocalVersion_resolves(p)
        \/ SmartSyncSettled(p)

\* smartSync calls, and a clearCache call between them.
ClearNext ==
    \/ clear.pc # "running" /\ SyncStepsOk
    \/ ClearCacheCall
    \/ ClearCacheRejects
    \/ clearCache_businesses
    \/ clearCache_categories
    \/ clearCache_metadata

ClearSpec == ClearInit /\ [][ClearNext]_vars

\* C20: when clearCache has resolved, and until the next smartSync call, both
\* collections are empty and no version descriptor is stored; the next
\* smartSync call finds the descriptor absent, answers the check with
\* 'full_sync' and, when no step of it fails, fetches once and returns
\* 'full_sync'.
C20_ClearCacheForcesFullSync ==
    clear.pc = "done" =>
        /\ nCalls = clear.callsAtDone =>
              cachedBiz = {} /\ cachedCats = {} /\ dataVersion = null
        /\ nCalls = clear.callsAtDone + 1 =>
              \A p \in SyncProcs :
                  /\ sync[p].localWas \in {"none", "absent"}
                  /\ sync[p].syncAction \in {"none", "full_sync"}
                  /\ (sync[p].pc = "returned" /\ ~sync[p].caught) =>
                        /\ sync[p].result # null
                        /\ sync[p].result.action = "full_sync"
                        /\ sync[p].nFetchAll = 1

\* C20 witness: a full sync filled the store, clearCache emptied it, and the
\* smartSync call after it has done a full sync again.
C20_Witness ==
    /\ clear.pc = "done"
    /\ clear.callsAtDone = 1
    /\ nCalls = 2
    /\ \E p \in SyncProcs :
          /\ sync[p].pc = "returned"
          /\ ~sync[p].caught
          /\ clear.hadData
          /\ sync[p].localWas = "absent"
          /\ sync[p].result.action = "full_sync"

---------------------------------------------------------------------------
(* Presence pings (trackingService: startLiveTracking, sendPing)           *)

PING_INTERVAL == 20000
MIN_ACTIVITY_GAP == 10000

\* The page's clock advances in steps of half the recency window.
PingTick == MIN_ACTIVITY_GAP \div 2
MaxPingTicks == 5
MaxStarts == 2

\* localStorage 'jawala_device_id', as getDeviceId() returns it.
DeviceId == "device_1"

\* sendPing's early return:
\* if (!isTabActive || Date.now() - lastActivity > MIN_ACTIVITY_GAP || !isAnalyticsEnabled) return;
PingSkipped ==
    \/ ~presence.isTabActive
    \/ presence.now - presence.lastActivity > MIN_ACTIVITY_GAP
    \/ ~isAnalyticsEnabled

\* sendPing(deviceId, userName) called by `by`: what it does before its first
\* await. The upsert on 'live_users' is issued unless the call returns early or
\* safeAnalyticsOperation skips the operation; its result is only logged.
sendPing(deviceId, by) ==
    IF PingSkipped \/ ~OperationRuns(isAnalyticsEnabled)
    THEN [sent |-> FALSE, by |-> by, at |-> presence.now, hidden |-> presence.hidden,
          gap |-> presence.now - presence.lastActivity, device_id |-> "none", onConflict |-> "none"]
    ELSE [sent |-> TRUE, by |-> by, at |-> presence.now, hidden |-> presence.hidden,
          gap |-> presence.now - presence.lastActivity, device_id |-> deviceId, onConflict |-> "device_id"]

\* Date.now() moves on.
PingClockAdvances ==
    /\ ~presence.unloaded
    /\ presence.now < MaxPingTicks * PingTick
    /\ presence' = [presence EXCEPT !.now = @ + PingTick]
    /\ UNCHANGED <<storeVars, sync, wBiz, wCats, wVer, lastBiz, lastCats, nCalls,
                   batchVars, adminVars, safeOp, clear, ai, loads, visit, app>>

\* mousedown, keydown, scroll or touchstart on the document: lastActivity = Date.now().
UserActivity ==
    /\ ~presence.unloaded
    /\ ~presence.hidden
    /\ presence.lastActivity # presence.now
    /\ presence' = [presence EXCEPT !.lastActivity = presence.now]
    /\ UNCHANGED <<storeVars, sync, wBiz, wCats, wVer, lastBiz, lastCats, nCalls,
                   batchVars, adminVars, safeOp, clear, ai, loads, visit, app>>

\* visibilitychange: the tab is hidden or shown.
\* isTabActive = !document.hidden; if (isTabActive) lastActivity = Date.now();
VisibilityChange ==
    /\ ~presence.unloaded
    /\ presence' = [presence EXCEPT
            !.hidden = ~presence.hidden,
            !.isTabActive = presence.hidden,
            !.lastActivity = IF presence.hidden THEN presence.now ELSE @]
    /\ UNCHANGED <<storeVars, sync, wBiz, wCats, wVer, lastBiz, lastCats, nCalls,
                   batchVars, adminVars, safeOp, clear, ai, loads, visit, app>>

\* startLiveTracking() up to its await:
\* if (!isAnalyticsEnabled) return; ... await sendPing(deviceId, userName);
StartLiveTrackingCall ==
    /\ ~presence.unloaded
    /\ Len(presence.calls) < MaxStarts
    /\ IF ~isAnalyticsEnabled
       THEN presence' = [presence EXCEPT !.calls = Append(@, "returned")]
       ELSE presence' = [presence EXCEPT
                !.calls = Append(@, "awaitPing"),
                !.overlapped = @ \/ \E c \in 1..Len(presence.calls) :
                                        presence.calls[c] = "awaitPing",
                !.lastPing = sendPing(DeviceId, "start")]

\* startLiveTracking() called on its own.
StartLiveTracking ==
    /\ StartLiveTrackingCall
    /\ UNCHANGED <<storeVars, sync, wBiz, wCats, wVer, lastBiz, lastCats, nCalls,
                   batchVars, adminVars, safeOp, clear, ai, loads, visit, app>>

\* setInterval(() => sendPing(deviceId, userName), PING_INTERVAL) with the
\* clearInterval before it or without.
SetPingInterval_noClear(p) ==
    LET h == Len(p.due) + 1
    IN  [p EXCEPT !.active = @ \cup {h},
                  !.due = Append(@, p.now + PING_INTERVAL),
                  !.pingInterval = h]

\* if (pingInterval) clearInterval(pingInterval);
\* pingInterval = setInterval(..., PING_INTERVAL);
SetPingInterval(p) ==
    LET h == Len(p.due) + 1
    IN  [p EXCEPT !.active = (@ \ {p.pingInterval}) \cup {h},
                  !.due = Append(@, p.now + PING_INTERVAL),
                  !.pingInterval = h]

\* startLiveTracking() after its await: the initial ping has settled (sendPing
\* never rejects); the interval is replaced and a beforeunload listener added.
StartPingSettles(c) ==
    /\ ~presence.unloaded
    /\ c \in 1..Len(presence.calls)
    /\ presence.calls[c] = "awaitPing"
    /\ presence' = [SetPingInterval(presence) EXCEPT
            !.calls[c] = "done",
            !.listeners = @ + 1]
    /\ UNCHANGED <<storeVars, sync, wBiz, wCats, wVer, lastBiz, lastCats, nCalls,
                   batchVars, adminVars, safeOp, clear, ai, loads, visit, app>>

\* An active interval timer fires (at its due time or later): sendPing(deviceId, userName).
PingIntervalFires(h) ==
    /\ ~presence.unloaded
    /\ h \in presence.active
    /\ presence.due[h] <= presence.now
    /\ presence' = [presence EXCEPT
            !.due[h] = presence.now + PING_INTERVAL,
            !.lastPing = sendPing(DeviceId, "interval")]
    /\ UNCHANGED <<storeVars, sync, wBiz, wCats, wVer, lastBiz, lastCats, nCalls,
                   batchVars, adminVars, safeOp, clear, ai, loads, visit, app>>

\* One beforeunload listener of startLiveTracking:
\* if (pingInterval) clearInterval(pingInterval);
\* if (isAnalyticsEnabled && analyticsClient) navigator.sendBeacon(.../live_users, ...);
UnloadListener(p) ==
    [p EXCEPT !.active = @ \ {p.pingInterval},
              !.beacons = IF AnalyticsConfigured(isAnalyticsEnabled) THEN @ + 1 ELSE @]

RECURSIVE RunUnloadListeners(_, _)
RunUnloadListeners(p, n) ==
    IF n = 0 THEN p ELSE RunUnloadListeners(UnloadListener(p), n - 1)

\* The page unloads: every registered beforeunload listener runs, and no code
\* of the page runs afterwards.
PageUnload ==
    /\ ~presence.unloaded
    /\ presence' = [RunUnloadListeners(presence, presence.listeners) EXCEPT
            !.unloaded = TRUE]
    /\ UNCHANGED <<storeVars, sync, wBiz, wCats, wVer, lastBiz, lastCats, nCalls,
                   batchVars, adminVars, safeOp, clear, ai, loads, visit, app>>

\* The module loaded with analytics configured or not, in a foreground tab or in
\* a background tab (document.hidden is true and no visibilitychange was delivered).
PingInit ==
    /\ StoreEmpty /\ SyncIdle
    /\ remoteBiz = {} /\ businessData = {} /\ admin = IdleAdmin
    /\ \E enabled \in BOOLEAN :
          /\ isAnalyticsEnabled = enabled
          /\ stream = [i \in 1..MaxEvents |-> Tables[1]]
          /\ eventQueue = <<>> /\ flushTimeout = 0 /\ timers = {} /\ flushes = <<>>
          /\ nextEventId = 1 /\ lastEnqueue = "none" /\ clock = 0 /\ due = <<>>
          /\ lastPushAt = 0 /\ flushCause = <<>> /\ unloads = 0
    /\ safeOp = null /\ clear = IdleClear
    /\ \E hidden \in BOOLEAN : presence = [IdlePresence EXCEPT !.hidden = hidden]
    /\ ai = IdleAi /\ loads = IdleLoads /\ visit = IdleVisit /\ app = IdleApp

PingNext ==
    \/ PingClockAdvances
    \/ UserActivity
    \/ VisibilityChange
    \/ StartLiveTracking
    \/ \E c \in 1..MaxStarts : StartPingSettles(c)
    \/ \E h \in 1..MaxStarts : PingIntervalFires(h)
    \/ PageUnload

PingSpec == PingInit /\ [][PingNext]_vars

\* C21: a presence ping issues its upsert, keyed by the device identifier, only
\* when analytics is enabled, the tab is visible (document.hidden is false) and
\* lastActivity is at most MIN_ACTIVITY_GAP old at the moment of the ping.
C21_PingOnlyWhenVisibleAndRecent ==
    presence.lastPing.sent =>
        /\ isAnalyticsEnabled
        /\ ~presence.lastPing.hidden
        /\ presence.lastPing.gap <= MIN_ACTIVITY_GAP
        /\ presence.lastPing.device_id = DeviceId
        /\ presence.lastPing.onConflict = "device_id"


\* C29: after any sequence of startLiveTracking calls, overlapping ones included,
\* at most one ping interval timer is active, and none is after the page unloaded.
C29_AtMostOnePingInterval ==
    /\ Cardinality(presence.active) <= 1
    /\ presence.unloaded => presence.active = {}

\* Two startLiveTracking calls, the second started while the first awaited its
\* initial ping, both set their interval, and the page unloaded.
C29_Witness ==
    /\ presence.overlapped
    /\ Len(presence.due) = 2
    /\ presence.listeners = 2
    /\ \A c \in 1..Len(presence.calls) : presence.calls[c] = "done"
    /\ presence.unloaded

---------------------------------------------------------------------------
(* AiAssistant.handleQuery                                                 *)

MaxQueries == 2
MaxResults == 2

\* process.env.AI_MODEL: unset, a Google model, a Mistral model, another one.
ModelNames == {"", "gemini-2.0-flash", "mistral-small-latest", "gpt-4o"}

\* The texts handleQuery can display (errorMessage, a blank line, errorDetails).
MsgUnavailableAdmin == "AI seva upalabdha nahi. / Krupaya prashasakashi sampark sadha."
MsgNotConfigured == "AI seva configure keleli nahi. / Krupaya prashasakashi sampark sadha."
MsgNetwork == "Internet connection tapasa. / Network truti: servershi sampark sadhata ala nahi."
MsgRateLimit == "Seva tatpurati upalabdha nahi. / Krupaya kahi velane punha prayatna kara."
MsgInvalidResponse == "AI ne avaidh pratisad dila. / Krupaya punha prayatna kara."
MsgUnavailableRetry == "AI seva upalabdha nahi. / Krupaya kahi velane punha prayatna kara."
MsgUnavailable == "AI seva upalabdha nahi. / Krupaya punha prayatna kara kinva prashasakashi sampark sadha."
MsgUnknown == "Adnyat truti ali. / Krupaya page refresh karun punha prayatna kara."

ErrorMessages ==
    {MsgUnavailableAdmin, MsgNotConfigured, MsgNetwork, MsgRateLimit,
     MsgInvalidResponse, MsgUnavailableRetry, MsgUnavailable, MsgUnknown}

\* A thrown value: an Error with its message (a sequence of words), or something else.
ErrorOf(message) == [isError |-> TRUE, message |-> message]
NonError == [isError |-> FALSE, message |-> <<>>]

\* err.message.includes(w), err.message.startsWith(w)
Includes(message, w) == \E i \in 1..Len(message) : message[i] = w
StartsWith(message, w) == Len(message) > 0 /\ message[1] = w

\* The catch block's choice of errorMessage and errorDetails, with 'unknown
\* error' left blank or as written.
FullError_blankUnknown(err) ==
    IF ~err.isError THEN ""
    ELSE MsgUnavailable

FullError(err) ==
    LET m == err.message
    IN  IF ~err.isError THEN MsgUnknown
        ELSE IF m = <<"AI_CONFIG_ERROR">> THEN MsgUnavailableAdmin
        ELSE IF m = <<"GOOGLE_API_KEY_MISSING">> \/ m = <<"MISTRAL_API_KEY_MISSING">>
             THEN MsgNotConfigured
        ELSE IF StartsWith(m, "UNSUPPORTED_MODEL") THEN MsgUnavailableAdmin
        ELSE IF Includes(m, "fetch") \/ Includes(m, "network") \/ Includes(m, "Failed to fetch")
             THEN MsgNetwork
        ELSE IF Includes(m, "rate limit") \/ Includes(m, "429") \/ Includes(m, "quota")
             THEN MsgRateLimit
        ELSE IF Includes(m, "JSON") \/ Includes(m, "parse") THEN MsgInvalidResponse
        ELSE IF StartsWith(m, "MISTRAL_API_ERROR") THEN MsgUnavailableRetry
        ELSE IF Includes(m, "authentication") \/ Includes(m, "unauthorized") \/ Includes(m, "401")
             THEN MsgNotConfigured
        ELSE MsgUnavailable

\* The entries of AiResult.results a model can answer with.
ResultItems ==
    {[type |-> "business", businessId |-> "b1", content |-> ""],
     [type |-> "business", businessId |-> "", content |-> ""],
     [type |-> "text", businessId |-> "", content |-> "text"]}

ResultLists == UNION {[1..n -> ResultItems] : n \in 0..MaxResults}

\* What JSON.parse(jsonStr) can give: an AiResult, an object without 'results',
\* or null.
ParsedValues ==
    {[summary |-> "summary", results |-> r] : r \in ResultLists}
    \cup {[summary |-> "summary"], null}

\* The ways the model request can end: it throws, or it gives a text that is
\* valid JSON or not.
ThrownByRequest ==
    {ErrorOf(<<"Failed to fetch">>), ErrorOf(<<"network">>), ErrorOf(<<"429">>),
     ErrorOf(<<"quota">>), ErrorOf(<<"authentication">>), ErrorOf(<<"TypeError">>),
     ErrorOf(<<"MISTRAL_API_ERROR", "rate limit">>),
     ErrorOf(<<"MISTRAL_API_ERROR", "Unauthorized">>), NonError}

RequestOutcomes ==
    {[kind |-> "threw", err |-> e, valid |-> FALSE, value |-> null] : e \in ThrownByRequest}
    \cup {[kind |-> "text", err |-> NonError, valid |-> FALSE, value |-> null]}
    \cup {[kind |-> "text", err |-> NonError, valid |-> TRUE, value |-> v] : v \in ParsedValues}

\* query.trim()
Trim(q) == IF q = " " THEN "" ELSE q
Queries == {"", " ", "tailor"}

\* parsedResponse.results.filter(r => r.type === 'business' && r.businessId)
\*                       .map(r => r.businessId)
BusinessIds(parsed) ==
    LET found == SelectSeq(parsed.results,
                           LAMBDA r : r.type = "business" /\ r.businessId # "")
    IN  [i \in 1..Len(found) |-> found[i].businessId]

\* trackAiSearch(searchQuery, aiResponseSummary, businessesFound, modelUsed):
\* the data it passes to queueEvent('ai_search_logs', ...).
trackAiSearch(searchQuery, aiResponseSummary, businessesFound, modelUsed) ==
    [search_query |-> searchQuery,
     ai_response_summary |-> aiResponseSummary,
     businesses_found |-> businessesFound,
     businesses_count |-> Len(businessesFound),
     search_success |-> Len(businessesFound) > 0,
     model_used |-> modelUsed]

\* The statements of the try block that throw before the request is made.
ThrownBeforeRequest(a) ==
    IF a.modelName = "" THEN ErrorOf(<<"AI_CONFIG_ERROR">>)
    ELSE IF a.modelName = "gemini-2.0-flash"
         THEN IF a.hasKey THEN NonError ELSE ErrorOf(<<"GOOGLE_API_KEY_MISSING">>)
    ELSE IF a.modelName = "mistral-small-latest"
         THEN IF a.hasKey THEN NonError ELSE ErrorOf(<<"MISTRAL_API_KEY_MISSING">>)
    ELSE ErrorOf(<<"UNSUPPORTED_MODEL", a.modelName>>)

\* catch (err) { console.error(...); ...; setError(fullError);
\*               trackAiSearch(query, fullError, [], process.env.AI_MODEL || 'unknown', ...) }
CatchBlock(a, err) ==
    [a EXCEPT !.raised = TRUE,
              !.logged = Append(@, err),
              !.error = FullError(err),
              !.tracked = Append(@, trackAiSearch(a.query, FullError(err), <<>>,
                                    IF a.modelName # "" THEN a.modelName ELSE "unknown"))]

\* finally { setIsLoading(false); }
FinallyBlock(a) == [a EXCEPT !.isLoading = FALSE, !.pc = "done"]

\* const parsedResponse = JSON.parse(jsonStr); setResponse(parsedResponse);
\* const businessIds = parsedResponse.results.filter(...).map(...);
\* trackAiSearch(query, parsedResponse.summary, businessIds, modelName, responseTime);
AfterRequest(a, outcome) ==
    IF outcome.kind = "threw" THEN CatchBlock(a, outcome.err)
    ELSE IF ~outcome.valid THEN CatchBlock(a, ErrorOf(<<"Unexpected token", "JSON">>))
    ELSE LET parsed == outcome.value
             shown == [a EXCEPT !.response = parsed]
         IN  IF parsed = null \/ "results" \notin DOMAIN parsed
             THEN CatchBlock(shown, ErrorOf(<<"Cannot read properties of undefined">>))
             ELSE [shown EXCEPT !.tracked =
                      Append(@, trackAiSearch(a.query, parsed.summary,
                                              BusinessIds(parsed), a.modelName))]

\* onChange of the input (enabled while no query is loading):
\* onQueryChange(value); if (response) setResponse(null); if (error) setError('');
HandleInputChange(q) ==
    /\ ~ai.isLoading
    /\ q # ai.query
    /\ ai' = [ai EXCEPT !.pc = "idle", !.query = q, !.response = null, !.error = ""]
    /\ UNCHANGED <<storeVars, sync, wBiz, wCats, wVer, lastBiz, lastCats, nCalls,
                   batchVars, adminVars, safeOp, clear, presence,
                   loads, visit, app>>

\* The form is submitted: handleQuery up to its first await, or to its end when
\* the query is blank or the try block throws before the request.
HandleQueryCall ==
    /\ ~ai.isLoading
    /\ ai.n < MaxQueries
    /\ Trim(ai.query) # ""
    /\ LET started == [ai EXCEPT !.n = @ + 1, !.isLoading = TRUE, !.error = "",
                                 !.response = null, !.logged = <<>>,
                                 !.tracked = <<>>, !.raised = FALSE]
           err == ThrownBeforeRequest(ai)
       IN  IF err # NonError
           THEN /\ ai' = FinallyBlock(CatchBlock(started, err))
                /\ QueueEventCall
           ELSE /\ ai' = [started EXCEPT !.pc = "awaitModel"]
                /\ UNCHANGED batchVars
    /\ UNCHANGED <<storeVars, sync, wBiz, wCats, wVer, lastBiz, lastCats, nCalls,
                   adminVars, safeOp, clear, presence, loads, visit, app>>

\* if (!query.trim()) return;
HandleQueryBlank ==
    /\ ~ai.isLoading
    /\ Trim(ai.query) = ""
    /\ ai.pc # "blank"
    /\ ai' = [ai EXCEPT !.pc = "blank"]
    /\ UNCHANGED <<storeVars, sync, wBiz, wCats, wVer, lastBiz, lastCats, nCalls,
                   batchVars, adminVars, safeOp, clear, presence,
                   loads, visit, app>>

\* The request to the model ends; handleQuery runs to its end.
ModelRequestSettles(outcome) ==
    /\ ai.pc = "awaitModel"
    /\ ai' = FinallyBlock(AfterRequest(ai, outcome))
    /\ QueueEventCall
    /\ UNCHANGED <<storeVars, sync, wBiz, wCats, wVer, lastBiz, lastCats, nCalls,
                   adminVars, safeOp, clear, presence, loads, visit, app>>

\* The component mounted, with the build's AI_MODEL and API key set or not, and
\* analytics configured or not; every queueEvent call is trackAiSearch's.
AiInit ==
    /\ StoreEmpty /\ SyncIdle
    /\ remoteBiz = {} /\ businessData = {} /\ admin = IdleAdmin
    /\ isAnalyticsEnabled \in BOOLEAN
    /\ stream = [i \in 1..MaxEvents |-> "ai_search_logs"]
    /\ eventQueue = <<>> /\ flushTimeout = 0 /\ timers = {} /\ flushes = <<>>
    /\ nextEventId = 1 /\ lastEnqueue = "none" /\ clock = 0 /\ due = <<>>
    /\ lastPushAt = 0 /\ flushCause = <<>> /\ unloads = 0
    /\ safeOp = null /\ clear = IdleClear
    /\ presence = IdlePresence
    /\ loads = IdleLoads /\ visit = IdleVisit /\ app = IdleApp
    /\ \E m \in ModelNames, k \in BOOLEAN :
          ai = [pc |-> "idle", query |-> "", response |-> null, error |-> "",
                isLoading |-> FALSE, logged |-> <<>>, tracked |-> <<>>,
                raised |-> FALSE, n |-> 0, modelName |-> m, hasKey |-> k]

AiNext ==
    \/ \E q \in Queries : HandleInputChange(q)
    \/ HandleQueryCall
    \/ HandleQueryBlank
    \/ \E outcome \in RequestOutcomes : ModelRequestSettles(outcome)

AiSpec == AiInit /\ [][AiNext]_vars

\* C22: whatever error is raised during handleQuery, the handler ends with a
\* non-empty message of its fixed set displayed, the cause logged and the
\* loading flag reset.
C22_EveryFailureClassified ==
    (ai.pc = "done" /\ ai.raised) =>
        /\ ai.error \in ErrorMessages
        /\ ai.error # ""
        /\ Len(ai.logged) = 1
        /\ ~ai.isLoading

\* A value that is not an Error was thrown by the request and handled.
C22_Witness ==
    /\ ai.pc = "done"
    /\ ai.raised
    /\ ai.logged = <<NonError>>
    /\ ai.error = MsgUnknown

\* C30: when handleQuery completes, exactly one of response and error is set,
\* and exactly one AI-search event was handed to the batcher, with search_success
\* true exactly when a business id was found and businesses_count their number.
C30_OneOutcomeOneRecord ==
    ai.pc = "done" =>
        /\ (ai.response # null) # (ai.error # "")
        /\ Len(ai.tracked) = 1
        /\ LET ids == IF ai.error = "" THEN BusinessIds(ai.response) ELSE <<>>
           IN  /\ ai.tracked[1].search_success = (Len(ids) > 0)
               /\ ai.tracked[1].businesses_count = Len(ids)


---------------------------------------------------------------------------
(* The batcher on a page that stays open, with timers that do fire         *)

\* queueEvent called while the run can still be followed to the flush of the
\* event: the timer it sets falls due within the clock's range and one more
\* swap can be recorded.
LiveQueueEvent ==
    /\ clock + FLUSH_INTERVAL <= MaxTicks * TickMs
    /\ Len(flushes) < MaxFlushes
    /\ queueEvent

LiveInit == BatchInit /\ isAnalyticsEnabled

LiveNext ==
    \/ LiveQueueEvent
    \/ FlushTimerFires
    \/ ClockAdvances
    \/ \E k \in 1..Len(flushes) : InsertResolves(k)
    \/ \E k \in 1..Len(flushes) : InsertThrows(k)

\* Time passes, and a timer that is due has its callback run.
BatchLiveSpec ==
    LiveInit /\ [][LiveNext]_vars /\ WF_vars(ClockAdvances) /\ WF_vars(FlushTimerFires)

\* Event i is in the queue; event i is in the batch of some flush.
Queued(i) == \E j \in 1..Len(eventQueue) : eventQueue[j].data = i
Swapped(i) ==
    \E k \in 1..Len(flushes) :
        \E j \in 1..Len(flushes[k].batch) : flushes[k].batch[j].data = i

\* C23: with analytics enabled and the page kept alive, while the queue is
\* non-empty a flush timer is pending, and every enqueued event is eventually
\* swapped out by some flush.
C23_EveryEventEventuallyFlushed ==
    /\ [](eventQueue # <<>> => \E h \in timers : h = flushTimeout)
    /\ \A i \in 1..MaxEvents : Queued(i) ~> Swapped(i)

\* A timer flush and a threshold flush have both swapped events out.
C23_Witness ==
    /\ \E k \in 1..Len(flushes) : flushCause[k] = "timer" /\ flushes[k].batch # <<>>
    /\ \E k \in 1..Len(flushes) : flushCause[k] = "threshold"
    /\ eventQueue = <<>>


---------------------------------------------------------------------------
(* The stored descriptor and the cached collections, checked under SyncSpec *)

\* C24: after a smartSync call, also one in which one of the three cache
\* writes failed while the others succeeded, the stored descriptor and the
\* cached collections come from the same fetch: once the call has returned and
\* its writes have settled, if its descriptor (the remote count and
\* last_updated) was stored, the cached businesses and categories are the
\* dataset that call fetched.
C24_DescriptorMatchesCache ==
    \A p \in Procs :
        ( /\ sync[p].pc = "returned"
          /\ ~Running(wBiz[p]) /\ ~Running(wCats[p])
          /\ wVer[p].st = "done"
          /\ dataVersion # null
          /\ dataVersion.business_count = sync[p].remoteVersion.business_count
          /\ dataVersion.last_updated = sync[p].remoteVersion.last_updated )
        => /\ getCachedBusinesses = Range(sync[p].data.businesses)
           /\ getCachedCategories = Range(sync[p].data.categories)


---------------------------------------------------------------------------
(* Application loads: loadData calls smartSync with supabaseService's      *)
(* getDataVersion as the version accessor                                  *)

\* The content of the remote table 'businesses' during the loads.
RemoteTables == {Range(d.businesses) : d \in DataSets}

\* updated_at of a remote row.
UpdatedAt(b) == IF b.rev = 1 THEN "2024-01-01T00:00:00Z" ELSE "2024-01-02T00:00:00Z"

\* .order('updated_at', { ascending: false }).limit(1)
LatestRow(rows) == CHOOSE b \in rows : \A c \in rows : c.rev <= b.rev

\* new Date().toISOString() at time t.
IsoTimes ==
    <<"2025-01-01T00:00:01Z", "2025-01-01T00:00:02Z", "2025-01-01T00:00:03Z",
      "2025-01-01T00:00:04Z">>
IsoNow(t) == IsoTimes[t]

\* The ways the two queries of getDataVersion end: both give a result (no row
\* for an empty table, PGRST116, counts as one), or one of them gives an error.
VersionQueryOutcomes == {"ok", "countError", "updateError"}

\* getDataVersion(): { business_count: count || 0,
\*                     last_updated: data?.updated_at || new Date().toISOString(), ... };
\* in its catch block { business_count: 0, last_updated: new Date().toISOString(), ... }
getDataVersion(rows, outcome, now) ==
    IF outcome # "ok"
    THEN [business_count |-> 0, last_updated |-> IsoNow(now), last_sync |-> now]
    ELSE [business_count |-> Cardinality(rows),
          last_updated |-> IF rows = {} THEN IsoNow(now) ELSE UpdatedAt(LatestRow(rows)),
          last_sync |-> now]

\* fetchRemoteVersion of loadData resolves (getDataVersion never rejects):
\* const version = await getDataVersion(); return { ...version, last_sync: Date.now() }
LoadVersionResolves(p) ==
    /\ sync[p].pc = "fetchRemoteVersion"
    /\ \E outcome \in VersionQueryOutcomes :
          /\ sync' = [sync EXCEPT ![p].pc = "getLocalVersion",
                          ![p].remoteVersion = getDataVersion(remoteBiz, outcome, DateNow)]
          /\ loads' = [loads EXCEPT !.failed = (outcome # "ok")]
    /\ UNCHANGED <<storeVars, wBiz, wCats, wVer, lastBiz, lastCats, nCalls, batchVars,
                   adminVars, safeOp, clear, presence, ai, visit, app>>

\* fetchAllData of loadData resolves with the rows of the remote tables.
LoadFetchAllDataResolves(p) ==
    /\ FetchAllDataResolves(p)
    /\ Range(sync'[p].data.businesses) = remoteBiz

\* loadData has taken smartSync's result and every write has settled.
LoadSettled(p) ==
    /\ sync[p].pc = "returned"
    /\ ~Running(wBiz[p]) /\ ~Running(wCats[p]) /\ ~Running(wVer[p])
    /\ loads' = [failed |-> FALSE,
                 done |-> Append(loads.done,
                            [failed |-> loads.failed,
                             action |-> sync[p].result.action,
                             nFetchAll |-> sync[p].nFetchAll,
                             remoteVersion |-> sync[p].remoteVersion])]
    /\ sync' = [sync EXCEPT ![p] = IdleSync]
    /\ wBiz' = [wBiz EXCEPT ![p] = IdleTask]
    /\ wCats' = [wCats EXCEPT ![p] = IdleTask]
    /\ wVer' = [wVer EXCEPT ![p] = IdleVer]
    /\ UNCHANGED <<storeVars, lastBiz, lastCats, nCalls, batchVars,
                   adminVars, safeOp, clear, presence, ai, visit, app>>

\* An empty local store and a remote table that stays as it is.
LoadInit ==
    /\ StoreEmpty /\ SyncIdle /\ BatchIdle
    /\ remoteBiz \in RemoteTables
    /\ businessData = {} /\ admin = IdleAdmin
    /\ CallsIdle

\* Loads of the application one after the other; apart from the version
\* queries no step fails.
LoadNext ==
    \E p \in SyncProcs :
        \/ SmartSyncCall(p)
        \/ LoadVersionResolves(p)
        \/ CheckSyncNeededResolves(p)
        \/ GetCachedBusinessesResolves(p)
        \/ GetCachedCategoriesResolves(p)
        \/ LoadFetchAllDataResolves(p)
        \/ setCachedBusinesses_clear(p)
        \/ setCachedBusinesses_put(p)
        \/ setCachedBusinesses_done(p)
        \/ setCachedCategories_clear(p)
        \/ setCachedCategories_put(p)
        \/ setCachedCategories_done(p)
        \/ setLocalVersion_resolves(p)
        \/ LoadSettled(p)

LoadSpec == LoadInit /\ [][LoadNext]_vars

\* C25: a failed remote version query never causes a full fetch and never
\* causes a descriptor to be persisted; the stored descriptor carries a count
\* and last_updated that the remote service reported.
C25_FailedVersionQueryNoFetch ==
    \A p \in SyncProcs :
        loads.failed =>
            /\ sync[p].nFetchAll = 0
            /\ sync[p].nSetVersion = 0

\* C26: if the remote dataset does not change between two consecutive
\* successful loads, the second load's sync returns 'no_change' and performs
\* no full fetch, whatever the size of the remote table.
C26_SecondLoadNoChange ==
    ( /\ Len(loads.done) = 2
      /\ ~loads.done[1].failed
      /\ ~loads.done[2].failed )
    => /\ loads.done[2].action = "no_change"
       /\ loads.done[2].nFetchAll = 0


---------------------------------------------------------------------------
(* trackUserVisit (trackingService) as handleSaveUserName calls it         *)

MaxVisits == 2

\* The names entered in the popup.
UserNames == {"asha", "ravi"}

\* How the select on user_tracking ends: a row, no row (PGRST116), another
\* error result (logged), or a thrown exception.
SelectOutcomes == {"found", "none", "error", "throws"}

\* How the update or insert on user_tracking ends.
WriteOutcomes == {"ok", "error", "throws"}

\* setUserName(name): localStorage.setItem(USER_NAME_KEY, name)
setUserName(v, name) == [v EXCEPT !.stored = name]

\* trackUserVisit(userName) up to its first await:
\* if (!isAnalyticsEnabled) { setUserName(userName); return; }
\* otherwise safeAnalyticsOperation runs the operation up to its select.
TrackUserVisitCall(name) ==
    /\ visit.pc \in {"idle", "returned"}
    /\ visit.n < MaxVisits
    /\ LET called == [visit EXCEPT !.userName = name, !.n = @ + 1, !.existingUser = FALSE,
                                      !.logged = <<>>]
       IN  IF ~isAnalyticsEnabled
           THEN visit' = [setUserName(called, name) EXCEPT !.pc = "returned"]
           ELSE IF ~OperationRuns(isAnalyticsEnabled)
           THEN visit' = [called EXCEPT !.pc = "returned"]
           ELSE visit' = [called EXCEPT !.pc = "select"]
    /\ UNCHANGED <<storeVars, sync, wBiz, wCats, wVer, lastBiz, lastCats, nCalls,
                   batchVars, adminVars, safeOp, clear, presence, ai, loads, app>>

\* The select settles: on a throw safeAnalyticsOperation's catch ends the call;
\* otherwise the update (row found) or the insert is issued.
VisitSelectSettles(outcome) ==
    /\ visit.pc = "select"
    /\ visit' = IF outcome = "throws" THEN [visit EXCEPT !.pc = "returned"]
                ELSE [visit EXCEPT !.pc = "write", !.existingUser = (outcome = "found"),
                                   !.logged = IF outcome = "error"
                                              THEN Append(@, "Error fetching user") ELSE @]
    /\ UNCHANGED <<storeVars, sync, wBiz, wCats, wVer, lastBiz, lastCats, nCalls,
                   batchVars, adminVars, safeOp, clear, presence, ai, loads, app>>

\* The update or insert throws: safeAnalyticsOperation's catch ends the call.
VisitWriteThrows ==
    /\ visit.pc = "write"
    /\ "throws" \in WriteOutcomes
    /\ visit' = [visit EXCEPT !.pc = "returned"]
    /\ UNCHANGED <<storeVars, sync, wBiz, wCats, wVer, lastBiz, lastCats, nCalls,
                   batchVars, adminVars, safeOp, clear, presence, ai, loads, app>>

\* The update or insert gives a result (an error result is logged):
\* queueEvent('visit_logs', ...); setUserName(userName); startLiveTracking();
VisitWriteSettles(outcome) ==
    /\ visit.pc = "write"
    /\ outcome # "throws"
    /\ QueueEventCall
    /\ visit' = [setUserName(visit, visit.userName) EXCEPT
            !.pc = "returned",
            !.logged = IF outcome # "error" THEN @
                       ELSE IF visit.existingUser THEN Append(@, "Error updating user")
                       ELSE Append(@, "Error creating user")]
    /\ StartLiveTrackingCall
    /\ UNCHANGED <<storeVars, sync, wBiz, wCats, wVer, lastBiz, lastCats, nCalls,
                   adminVars, safeOp, clear, ai, loads, app>>

\* The initial ping of a startLiveTracking call made by trackUserVisit settles.
VisitPingSettles(c) ==
    /\ StartPingSettles(c)

\* The popup is open: no name is stored; analytics is configured or not, and
\* every queueEvent call is the one of trackUserVisit.
VisitInit ==
    /\ StoreEmpty /\ SyncIdle
    /\ remoteBiz = {} /\ businessData = {} /\ admin = IdleAdmin
    /\ isAnalyticsEnabled \in BOOLEAN
    /\ stream = [i \in 1..MaxEvents |-> "visit_logs"]
    /\ eventQueue = <<>> /\ flushTimeout = 0 /\ timers = {} /\ flushes = <<>>
    /\ nextEventId = 1 /\ lastEnqueue = "none" /\ clock = 0 /\ due = <<>>
    /\ lastPushAt = 0 /\ flushCause = <<>> /\ unloads = 0
    /\ safeOp = null /\ clear = IdleClear
    /\ presence = IdlePresence /\ ai = IdleAi /\ loads = IdleLoads /\ app = IdleApp
    /\ visit = IdleVisit

VisitNext ==
    \/ \E name \in UserNames : TrackUserVisitCall(name)
    \/ \E outcome \in SelectOutcomes : VisitSelectSettles(outcome)
    \/ VisitWriteThrows
    \/ \E outcome \in WriteOutcomes : VisitWriteSettles(outcome)
    \/ \E c \in 1..MaxStarts : VisitPingSettles(c)

VisitSpec == VisitInit /\ [][VisitNext]_vars

\* C27: when trackUserVisit(name) returns, the stored user name equals name,
\* whether analytics is disabled or its remote calls succeed, return errors or
\* throw.
C27_NameAlwaysPersisted ==
    visit.pc = "returned" => visit.stored = visit.userName

---------------------------------------------------------------------------
(* The admin session: supabaseService.signIn, LoginModal and the admin     *)
(* handlers of App                                                         *)

MaxLogins == 2

\* The accounts of the auth service: one with a row in admin_profiles, one without.
AdminUsers == {"admin1"}
Users == AdminUsers \cup {"user2"}

\* The sessions the auth client can hold when the page is opened.
Sessions == {""} \cup Users

\* The business the admin form saves in this specification.
FormBusiness == Biz("", 1)

AppFrame ==
    UNCHANGED <<storeVars, sync, wBiz, wCats, wVer, lastBiz, lastCats, nCalls,
                batchVars, safeOp, clear, presence, ai, loads, visit>>

\* loadData: const user = await SupabaseService.getCurrentUser() resolves;
\* if (user) isUserAdmin(user.id) is called.
LoadGetCurrentUser ==
    /\ app.load = "getCurrentUser"
    /\ app' = [app EXCEPT !.loadUser = app.session,
                          !.load = IF app.session = "" THEN "done" ELSE "isUserAdmin"]
    /\ AppFrame /\ UNCHANGED adminVars

\* isUserAdmin: return !error && !!data, for a select that gives the admin's
\* row or an error; loadData: if (isAdmin) setCurrentUser(user).
isUserAdmin(userId, error) == ~error /\ userId \in AdminUsers

LoadIsUserAdmin(error) ==
    /\ app.load = "isUserAdmin"
    /\ app' = [app EXCEPT
            !.load = "done",
            !.currentUser = IF isUserAdmin(app.loadUser, error) THEN app.loadUser ELSE @,
            !.checked = IF isUserAdmin(app.loadUser, error) THEN @ \cup {app.loadUser} ELSE @]
    /\ AppFrame /\ UNCHANGED adminVars

\* handleAdminLoginClick (the footer, reachable while no overlay covers it).
HandleAdminLoginClick ==
    /\ ~app.showLogin
    /\ app.adminView = "none"
    /\ app' = [app EXCEPT !.showLogin = TRUE]
    /\ AppFrame /\ UNCHANGED adminVars

\* LoginModal onClose: setShowLogin(false).
CloseLogin ==
    /\ app.showLogin
    /\ app' = [app EXCEPT !.showLogin = FALSE]
    /\ AppFrame /\ UNCHANGED adminVars

\* LoginModal.handleLogin: signIn(email, password) is called with the
\* credentials of user u.
HandleLogin(u) ==
    /\ app.showLogin
    /\ app.login \in {"idle", "done"}
    /\ app.logins < MaxLogins
    /\ app' = [app EXCEPT !.login = "signInWithPassword", !.loginUser = u,
                          !.loginThrew = FALSE, !.logins = @ + 1]
    /\ AppFrame /\ UNCHANGED adminVars

\* signIn: signInWithPassword gives an error (if (error) throw error; handleLogin
\* shows it) or a session; then the admin_profiles row is selected.
SignInWithPasswordSettles(error) ==
    /\ app.login = "signInWithPassword"
    /\ app' = IF error
              THEN [app EXCEPT !.login = "done", !.loginThrew = TRUE, !.loginUser = ""]
              ELSE [app EXCEPT !.login = "adminProfile", !.session = app.loginUser]
    /\ AppFrame /\ UNCHANGED adminVars

\* handleLoginSuccess(user):
\* setCurrentUser(user); setShowLogin(false); setAdminView('dashboard');
handleLoginSuccess(a, user) ==
    [a EXCEPT !.currentUser = user, !.showLogin = FALSE, !.adminView = "dashboard"]

\* signIn: the admin_profiles select settles. With a row signIn returns and
\* handleLogin calls onLoginSuccess(user); with adminError or no row signIn
\* calls supabase.auth.signOut().
AdminProfileSettles(error) ==
    /\ app.login = "adminProfile"
    /\ app' = IF ~error /\ app.loginUser \in AdminUsers
              THEN [handleLoginSuccess(app, app.loginUser) EXCEPT
                        !.login = "done",
                        !.checked = @ \cup {app.loginUser}]
              ELSE [app EXCEPT !.login = "signOut"]
    /\ AppFrame /\ UNCHANGED adminVars

\* signIn: await supabase.auth.signOut() ends the session;
\* throw new Error('You are not authorized as an admin'); handleLogin shows it.
SignInSignOutSettles ==
    /\ app.login = "signOut"
    /\ app' = [app EXCEPT !.login = "done", !.loginThrew = TRUE, !.session = ""]
    /\ AppFrame /\ UNCHANGED adminVars

\* handleLogout (the dashboard's button): await SupabaseService.signOut().
HandleLogout ==
    /\ app.adminView = "dashboard"
    /\ app.logout = "idle"
    /\ app' = [app EXCEPT !.logout = "signOut"]
    /\ AppFrame /\ UNCHANGED adminVars

\* signOut resolves: setCurrentUser(null); setAdminView(null); or it throws
\* (if (error) throw error) and handleLogout alerts.
LogoutSettles(error) ==
    /\ app.logout = "signOut"
    /\ app' = IF error THEN [app EXCEPT !.logout = "idle"]
              ELSE [app EXCEPT !.logout = "idle", !.session = "",
                               !.currentUser = "", !.adminView = "none"]
    /\ AppFrame /\ UNCHANGED adminVars

\* handleCloseAdmin: setAdminView(null); setBusinessToEdit(null).
HandleCloseAdmin ==
    /\ app.adminView \in {"dashboard", "edit-list"}
    /\ app' = [app EXCEPT !.adminView = "none", !.businessToEdit = FALSE]
    /\ AppFrame /\ UNCHANGED adminVars

\* AdminDashboard onAdd and onEdit.
DashboardAdd ==
    /\ app.adminView = "dashboard"
    /\ app' = [app EXCEPT !.adminView = "add", !.businessToEdit = FALSE]
    /\ AppFrame /\ UNCHANGED adminVars

DashboardEdit ==
    /\ app.adminView = "dashboard"
    /\ app' = [app EXCEPT !.adminView = "edit-list"]
    /\ AppFrame /\ UNCHANGED adminVars

\* EditBusinessList onSelect and onBack.
EditListSelect ==
    /\ app.adminView = "edit-list"
    /\ app' = [app EXCEPT !.adminView = "add", !.businessToEdit = TRUE]
    /\ AppFrame /\ UNCHANGED adminVars

EditListBack ==
    /\ app.adminView = "edit-list"
    /\ app' = [app EXCEPT !.adminView = "dashboard"]
    /\ AppFrame /\ UNCHANGED adminVars

\* BusinessForm onBack / onClose (not disabled while saving):
\* setAdminView(businessToEdit ? 'edit-list' : 'dashboard'); setBusinessToEdit(null).
FormBack ==
    /\ app.adminView = "add"
    /\ app' = [app EXCEPT
            !.adminView = IF app.businessToEdit THEN "edit-list" ELSE "dashboard",
            !.businessToEdit = FALSE]
    /\ AppFrame /\ UNCHANGED adminVars

\* The form is submitted (the button is disabled while isSaving):
\* handleSaveBusiness up to its first await.
FormSave ==
    /\ app.adminView = "add"
    /\ ~app.isSaving
    /\ SaveBusinessBegins(FormBusiness)
    /\ app' = [app EXCEPT !.isSaving = TRUE]
    /\ AppFrame

\* handleSaveBusiness: the mutation ends; on a throw the catch block alerts and
\* finally setIsSaving(false).
FormMutationEnds ==
    /\ app.isSaving
    /\ MutationEnds
    /\ app' = [app EXCEPT !.isSaving = (admin'.pc = "fetching")]
    /\ AppFrame

\* handleSaveBusiness: fetchBusinesses resolves: setBusinessData(...);
\* setAdminView('dashboard'); setBusinessToEdit(null); finally setIsSaving(false).
FormRefetchResolves ==
    /\ app.isSaving
    /\ RefetchResolves
    /\ app' = [app EXCEPT !.adminView = "dashboard", !.businessToEdit = FALSE,
                          !.isSaving = FALSE]
    /\ AppFrame

FormRefetchRejects ==
    /\ app.isSaving
    /\ RefetchRejects
    /\ app' = [app EXCEPT !.isSaving = FALSE]
    /\ AppFrame

\* The page is opened with or without a session kept by the auth client.
AppInit ==
    /\ StoreEmpty /\ SyncIdle /\ BatchIdle
    /\ remoteBiz = {} /\ businessData = {} /\ admin = IdleAdmin
    /\ safeOp = null /\ clear = IdleClear
    /\ presence = IdlePresence /\ ai = IdleAi /\ loads = IdleLoads /\ visit = IdleVisit
    /\ \E s \in Sessions : app = [IdleApp EXCEPT !.session = s]

AppNext ==
    \/ LoadGetCurrentUser
    \/ \E error \in BOOLEAN : LoadIsUserAdmin(error)
    \/ HandleAdminLoginClick
    \/ CloseLogin
    \/ \E u \in Users : HandleLogin(u)
    \/ \E error \in BOOLEAN : SignInWithPasswordSettles(error)
    \/ \E error \in BOOLEAN : AdminProfileSettles(error)
    \/ SignInSignOutSettles
    \/ HandleLogout
    \/ \E error \in BOOLEAN : LogoutSettles(error)
    \/ HandleCloseAdmin
    \/ DashboardAdd
    \/ DashboardEdit
    \/ EditListSelect
    \/ EditListBack
    \/ FormBack
    \/ FormSave
    \/ FormMutationEnds
    \/ FormRefetchResolves
    \/ FormRefetchRejects

AppSpec == AppInit /\ [][AppNext]_vars

\* C28: an admin view is open only while an admin user is recorded; currentUser
\* is only ever a user for whom an admin-profile check succeeded; a sign-in by
\* a non-admin ends with the session signed out and an error thrown.
C28_AdminViewOnlyForAdmin ==
    /\ app.adminView # "none" => app.currentUser # ""
    /\ app.currentUser # "" =>
          app.currentUser \in app.checked /\ app.currentUser \in AdminUsers
    /\ (app.login = "done" /\ app.loginUser # "" /\ app.loginUser \notin AdminUsers) =>
          app.loginThrew /\ app.session = ""

=============================================================================
